---- MODULE Spec2Model ----
(***************************************************************************)
(* A model of apttool.py: the search predicate (is_pkg_match), the search  *)
(* command (main -> query_build -> cmd_search -> search_itercache) and the *)
(* incrementally opened package cache (IterCache).                         *)
(*                                                                         *)
(* Text is modelled as a tuple of one-character strings, so that counting, *)
(* joining, stripping and regular-expression matching are computed on the  *)
(* characters and not assumed.                                             *)
(***************************************************************************)
EXTENDS Integers, Sequences, FiniteSets, TLC

\* ------------------------------------------------------------------------
\* Text helpers
\* ------------------------------------------------------------------------

\* Python's None, and the state of a variable a specification does not use.
None == "None"

\* None where a text is expected (a text is a tuple of characters).
NoneText == <<None>>

\* str.count(ch) for a one-character needle.
RECURSIVE count(_, _)
count(s, ch) ==
    IF s = <<>> THEN 0
    ELSE (IF Head(s) = ch THEN 1 ELSE 0) + count(Tail(s), ch)

\* str.lower() on one character, for the letters the model's texts use.
lower(c) ==
    CASE c = "F" -> "f"
      [] c = "O" -> "o"
      [] c = "B" -> "b"
      [] OTHER -> c

\* ------------------------------------------------------------------------
\* The regular-expression engine behind re.compile / re_pat.search, for the
\* syntax the program's queries can contain: literals, ( ) groups, |, ., $,
\* and the + and ? repeats (the "(?" extensions are outside it and are
\* reported as an error without their detail).  A parse result is
\*   [err |-> message or "", at |-> error position, node |-> tree, pos |-> next]
\* ------------------------------------------------------------------------

REPEAT_CHARS == {"+", "?"}

ParseErr(msg, at) == [err |-> msg, at |-> at, node |-> [k |-> "cat", xs |-> <<>>], pos |-> 0]

ParseOk(node, pos) == [err |-> "", at |-> 0, node |-> node, pos |-> pos]

\* The items parsed so far with the last one replaced by its repeat.
Repeated(acc, q) ==
    [acc EXCEPT ![Len(acc)] = [k |-> (IF q = "+" THEN "plus" ELSE "opt"), x |-> acc[Len(acc)]]]

RECURSIVE parse_sub(_, _)
RECURSIVE parse_items(_, _, _)

\* One branch: items up to the end of the text, a "|" or a ")".
parse_items(s, i, acc) ==
    IF i > Len(s) \/ s[i] \in {"|", ")"}
    THEN ParseOk([k |-> "cat", xs |-> acc], i)
    ELSE LET c == s[i] IN
      CASE c \in REPEAT_CHARS ->
             IF acc = <<>> \/ acc[Len(acc)].k = "eol"
             THEN ParseErr("nothing to repeat", i - 1)
             ELSE IF acc[Len(acc)].k \in {"plus", "opt"}
             THEN ParseErr("multiple repeat", i - 1)
             ELSE \* a "?" right after a repeat makes it lazy: same matches
                  LET j == IF i + 1 <= Len(s) /\ s[i + 1] = "?" THEN i + 2 ELSE i + 1
                  IN  parse_items(s, j, Repeated(acc, c))
        [] c = "(" ->
             IF i + 1 <= Len(s) /\ s[i + 1] = "?"
             THEN ParseErr("unknown extension", i)
             ELSE LET p == parse_sub(s, i + 1) IN
                  IF p.err # "" THEN p
                  ELSE IF p.pos <= Len(s) /\ s[p.pos] = ")"
                  THEN parse_items(s, p.pos + 1, Append(acc, p.node))
                  ELSE ParseErr("missing ), unterminated subpattern", i - 1)
        [] c = "." -> parse_items(s, i + 1, Append(acc, [k |-> "any"]))
        [] c = "$" -> parse_items(s, i + 1, Append(acc, [k |-> "eol"]))
        [] OTHER   -> parse_items(s, i + 1, Append(acc, [k |-> "lit", c |-> c]))

\* Branches separated by "|".
parse_sub(s, i) ==
    LET p == parse_items(s, i, <<>>) IN
    IF p.err # "" THEN p
    ELSE IF p.pos <= Len(s) /\ s[p.pos] = "|"
    THEN LET q == parse_sub(s, p.pos + 1) IN
         IF q.err # "" THEN q
         ELSE ParseOk([k |-> "alt", xs |-> <<p.node, q.node>>], q.pos)
    ELSE p

\* re.compile(regex, flags): the compiled pattern, or the re.error raised.
re_compile(regex, ignorecase) ==
    LET p == parse_sub(regex, 1) IN
    IF p.err # "" THEN [ok |-> FALSE, msg |-> p.err, at |-> p.at]
    ELSE IF p.pos <= Len(regex)
    THEN [ok |-> FALSE, msg |-> "unbalanced parenthesis", at |-> p.pos - 1]
    ELSE [ok |-> TRUE, pattern |-> regex, node |-> p.node, ignorecase |-> ignorecase]

RECURSIVE Ends(_, _, _, _)
RECURSIVE EndsCat(_, _, _, _, _)
RECURSIVE EndsPlus(_, _, _, _)

\* The positions where a match of node that starts at position i of t ends.
Ends(node, t, i, ic) ==
    CASE node.k = "lit" ->
           IF i <= Len(t) /\ (IF ic THEN lower(t[i]) = lower(node.c) ELSE t[i] = node.c)
           THEN {i + 1} ELSE {}
      [] node.k = "any" -> IF i <= Len(t) /\ t[i] # "\n" THEN {i + 1} ELSE {}
      [] node.k = "eol" ->
           IF i = Len(t) + 1 \/ (i = Len(t) /\ t[i] = "\n") THEN {i} ELSE {}
      [] node.k = "cat" -> EndsCat(node.xs, 1, t, {i}, ic)
      [] node.k = "alt" -> Ends(node.xs[1], t, i, ic) \cup Ends(node.xs[2], t, i, ic)
      [] node.k = "opt" -> {i} \cup Ends(node.x, t, i, ic)
      [] node.k = "plus" -> EndsPlus(node.x, t, Ends(node.x, t, i, ic), ic)

\* The items xs[n..] matched one after the other from any position of from.
EndsCat(xs, n, t, from, ic) ==
    IF n > Len(xs) \/ from = {} THEN from
    ELSE EndsCat(xs, n + 1, t, UNION {Ends(xs[n], t, j, ic) : j \in from}, ic)

\* One or more repetitions: the positions reached so far, until none is new.
EndsPlus(x, t, reached, ic) ==
    LET more == reached \cup UNION {Ends(x, t, j, ic) : j \in reached} IN
    IF more = reached THEN reached ELSE EndsPlus(x, t, more, ic)

\* re_pat.search(targetstr) is not None
re_search(re_pat, targetstr) ==
    \E i \in 1..(Len(targetstr) + 1) :
        Ends(re_pat.node, targetstr, i, re_pat.ignorecase) # {}

\* ------------------------------------------------------------------------
\* Packages as the backend exposes them
\* ------------------------------------------------------------------------

S_foo == <<"f", "o", "o">>
S_bar == <<"b", "a", "r">>
S_foo_dev == <<"f", "o", "o", "-", "d", "e", "v">>
S_libFoo == <<"l", "i", "b", "F", "o", "o">>
S_contains_foo_utility ==
    <<"c", "o", "n", "t", "a", "i", "n", "s", " ", "f", "o", "o", " ",
      "u", "t", "i", "l", "i", "t", "y">>
S_a_bar == <<"a", " ", "b", "a", "r">>

\* The architectures: packages of the native one are named without it.
NativeArch == <<"a", "m", "d", "6", "4">>
ForeignArch == <<"i", "3", "8", "6">>

Package(shortname, arch, description, installed, has_versions) ==
    [shortname |-> shortname, arch |-> arch, description |-> description,
     installed |-> installed, has_versions |-> has_versions]

\* The records of the spec's end-to-end scenarios.
P_foo_dev == Package(S_foo_dev, NativeArch, <<>>, FALSE, TRUE)
P_bar == Package(S_bar, NativeArch, S_contains_foo_utility, TRUE, TRUE)
\* Further records: no description at all, a description that does not
\* mention foo, a foreign-architecture package, a version-less stub.
P_foo == Package(S_foo, NativeArch, NoneText, TRUE, TRUE)
P_libFoo == Package(S_libFoo, NativeArch, S_a_bar, FALSE, TRUE)
P_bar_i386 == Package(S_bar, ForeignArch, S_foo, FALSE, TRUE)
P_cruft == Package(S_foo, ForeignArch, S_foo, FALSE, FALSE)

PackagePool == {P_foo_dev, P_bar, P_foo, P_libFoo, P_bar_i386, P_cruft}

\* apt_pkg.Package.get_fullname(pretty)
get_fullname(pkg, pretty) ==
    IF pretty /\ pkg.arch = NativeArch
    THEN pkg.shortname
    ELSE pkg.shortname \o <<":">> \o pkg.arch

\* apt.Package.name, the text is_pkg_match searches
pkg_name(pkg) == get_fullname(pkg, TRUE)

get_pkg_description(pkg) ==
    IF pkg.description = NoneText THEN <<>> ELSE pkg.description

\* ------------------------------------------------------------------------
\* The search predicate
\* ------------------------------------------------------------------------

InstallStateFilter == {"uninstalled", "every", "installed"}

from_argd(argd) ==
    IF argd.INSTALLED THEN "installed"
    ELSE IF argd.NOTINSTALLED THEN "uninstalled"
    ELSE "every"

\* pkg_install_state with the "uninstalled" answer not negated.
pkg_install_state_unnegated(pkg, expected) ==
    LET exp == IF expected = None THEN "installed" ELSE expected
    IN  IF exp = "every" THEN TRUE ELSE pkg.installed

pkg_install_state(pkg, expected) ==
    LET exp == IF expected = None THEN "installed" ELSE expected
        actualstate == pkg.installed
    IN  IF exp = "every" THEN TRUE
        ELSE IF exp = "installed" THEN actualstate
        ELSE IF exp = "uninstalled" THEN ~actualstate
        ELSE TRUE

matchfunc(re_pat, targetstr, reverse) ==
    LET rematch == re_search(re_pat, targetstr)
    IN  IF reverse THEN ~rematch ELSE rematch

\* is_pkg_match giving up on an empty description before it tries the name.
is_pkg_match_needs_desc(re_pat, pkg, kwargs) ==
    LET installstate == IF kwargs.installstate = None THEN "every"
                        ELSE kwargs.installstate
        pkgdesc == get_pkg_description(pkg)
    IN  IF ~pkg_install_state(pkg, installstate) THEN FALSE
        ELSE IF kwargs.desc_search /\ pkgdesc = <<>> THEN FALSE
        ELSE IF matchfunc(re_pat, pkg_name(pkg), kwargs.reverse) THEN TRUE
        ELSE IF ~kwargs.desc_search THEN FALSE
        ELSE matchfunc(re_pat, pkgdesc, kwargs.reverse)

\* is_pkg_match that searches the description without asking whether
\* there is one.
is_pkg_match_searches_empty(re_pat, pkg, kwargs) ==
    LET installstate == IF kwargs.installstate = None THEN "every"
                        ELSE kwargs.installstate
        pkgdesc == get_pkg_description(pkg)
    IN  IF ~pkg_install_state(pkg, installstate) THEN FALSE
        ELSE IF matchfunc(re_pat, pkg_name(pkg), kwargs.reverse) THEN TRUE
        ELSE IF ~kwargs.desc_search THEN FALSE
        ELSE matchfunc(re_pat, pkgdesc, kwargs.reverse)

is_pkg_match(re_pat, pkg, kwargs) ==
    LET desc_search == kwargs.desc_search
        reverse == kwargs.reverse
        installstate == IF kwargs.installstate = None THEN "every"
                        ELSE kwargs.installstate
        pkgdesc == get_pkg_description(pkg)
    IN  IF ~pkg_install_state(pkg, installstate) THEN FALSE
        ELSE IF matchfunc(re_pat, pkg_name(pkg), reverse) THEN TRUE
        ELSE IF ~desc_search THEN FALSE
        ELSE IF pkgdesc # <<>> /\ matchfunc(re_pat, pkgdesc, reverse) THEN TRUE
        ELSE FALSE

\* ------------------------------------------------------------------------
\* State
\* ------------------------------------------------------------------------

VARIABLES
    call,      \* the pending or finished is_pkg_match call: its arguments
    ret,       \* what the call returned: <<>> while pending, then <<value>>
    packages,  \* the backend's package list, in the backend's order
    archs,     \* len(apt_pkg.get_architectures()) of the platform
    failing,   \* the 1-based place in packages where the backend raises, 0 for none
    cache,     \* the IterCache instance: its attributes
    gen,       \* the generator of iter_open / iter_open_no_progress in use
    yielded,   \* the packages that generator has yielded, in order
    passes,    \* how many enumeration generators were created
    looked,    \* the last cache.get(name): <<>> before any, else <<[key, found]>>
    argd,      \* the command line as docopt parsed it
    pc,        \* where the program stands: "main", "cmd_search", "exit"
    sgen,      \* the generator of search_itercache
    results,   \* the packages cmd_search printed, in order
    exc,       \* the exception that ended main
    status,    \* the exit status given to sys.exit
    env,       \* what the commands other than the search read: dpkg.log, stdin, files
    run        \* the locals of the command other than the search that is running

matchVars == <<call, ret>>

backendVars == <<packages, archs, failing>>

cacheVars == <<cache, gen, yielded, passes, looked>>

searchVars == <<argd, pc, sgen, results, exc, status>>

cmdVars == <<env, run>>

vars ==
    <<call, ret, packages, archs, failing, cache, gen, yielded, passes, looked,
      argd, pc, sgen, results, exc, status, env, run>>

\* ------------------------------------------------------------------------
\* IterCache
\* ------------------------------------------------------------------------

\* IterCache(do_open=False): nothing is loaded; rough_size and
\* _have_multi_arch are not set yet.  The *_runs fields count the runs of
\* the callbacks of that name.
NewIterCache ==
    [constructed |-> TRUE, _cache |-> <<>>, _set |-> {}, _fullnameset |-> {},
     _sorted_set |-> None, _weakref |-> {}, _have_multi_arch |-> <<>>,
     rough_size |-> <<>>, cache_pre_open_runs |-> 0, cache_post_open_runs |-> 0]

\* No instance yet.
NoIterCache == [NewIterCache EXCEPT !.constructed = FALSE]

\* _pre_iter_open that leaves the name index as it finds it.
_pre_iter_open_keeps_index(c, pkgs, narchs) ==
    [c EXCEPT !.cache_pre_open_runs = @ + 1,
              !._cache = <<[packages |-> pkgs]>>,
              !._fullnameset = {},
              !._sorted_set = None,
              !._weakref = {},
              !._have_multi_arch = <<narchs > 1>>,
              !.rough_size = <<Len(pkgs)>>]

\* IterCache._pre_iter_open over the backend list pkgs
_pre_iter_open(c, pkgs, narchs) ==
    [c EXCEPT !.cache_pre_open_runs = @ + 1,
              !._cache = <<[packages |-> pkgs]>>,
              !._set = {},
              !._fullnameset = {},
              !._sorted_set = None,
              !._weakref = {},
              !._have_multi_arch = <<narchs > 1>>,
              !.rough_size = <<Len(pkgs)>>]

\* No generator, and a generator object whose body has not started.
\* pos counts the backend records the for loop has taken; i, last, updates
\* and done are the progress bookkeeping of iter_open.
NoGen ==
    [kind |-> None, state |-> None, pos |-> 0, i |-> 0, last |-> 0,
     updates |-> <<>>, done |-> 0]

NewGen(kind) == [NoGen EXCEPT !.kind = kind, !.state = "created"]

\* The records the loop of iter_open reports progress after.
ProgressStep == 100

\* ProgressUpdate with "last + 100 <= i": one record too early.
ProgressUpdate_one_early(g, size) ==
    IF g.kind = "iter_open" /\ g.last + ProgressStep <= g.i
    THEN [g EXCEPT !.updates = Append(@, <<g.i, size>>), !.last = g.i]
    ELSE g

\* progress.update(i / float(size) * 100), as the pair <<i, size>>
ProgressUpdate(g, size) ==
    IF g.kind = "iter_open" /\ g.last + ProgressStep < g.i
    THEN [g EXCEPT !.updates = Append(@, <<g.i, size>>), !.last = g.i]
    ELSE g

\* Indexed without the test of _have_multi_arch.
Indexed_any_arch(c, pkg) ==
    [c EXCEPT !._set = @ \cup {get_fullname(pkg, TRUE)},
              !._fullnameset = @ \cup {get_fullname(pkg, FALSE)},
              !._weakref = @ \cup {get_fullname(pkg, TRUE)}]

\* Indexed that also takes the size of the name index as the new rough_size.
Indexed_resizes(c, pkg) ==
    [c EXCEPT !._set = @ \cup {get_fullname(pkg, TRUE)},
              !._fullnameset = IF c._have_multi_arch = <<TRUE>>
                               THEN @ \cup {get_fullname(pkg, FALSE)}
                               ELSE @,
              !._weakref = @ \cup {get_fullname(pkg, TRUE)},
              !.rough_size = <<Cardinality(c._set \cup {get_fullname(pkg, TRUE)})>>]

\* What one package adds to the indexes before it is yielded.
Indexed(c, pkg) ==
    [c EXCEPT !._set = @ \cup {get_fullname(pkg, TRUE)},
              !._fullnameset = IF c._have_multi_arch = <<TRUE>>
                               THEN @ \cup {get_fullname(pkg, FALSE)}
                               ELSE @,
              !._weakref = @ \cup {get_fullname(pkg, TRUE)}]

\* iter_open_loop without the test of has_versions: the next record is
\* yielded whatever it is.
iter_open_loop_keeps_cruft(g, c, pkgs, bad) ==
    IF g.pos >= Len(pkgs)
    THEN [gen |-> [g EXCEPT !.state = "finished",
                            !.done = IF g.kind = "iter_open" THEN @ + 1 ELSE @],
          cache |-> IF g.kind = "iter_open"
                    THEN [c EXCEPT !.cache_post_open_runs = @ + 1]
                    ELSE c,
          yield |-> <<>>, raised |-> FALSE]
    ELSE IF g.pos + 1 = bad
    THEN [gen |-> [g EXCEPT !.state = "raised"], cache |-> c, yield |-> <<>>,
          raised |-> TRUE]
    ELSE [gen |-> [g EXCEPT !.pos = @ + 1, !.state = "suspended"],
          cache |-> c,
          yield |-> <<pkgs[g.pos + 1]>>, raised |-> FALSE]

RECURSIVE iter_open_loop_skips_bad(_, _, _, _)

\* iter_open_loop with the exception of the backend caught per record: the
\* failing record is skipped and the enumeration goes on.
iter_open_loop_skips_bad(g, c, pkgs, bad) ==
    IF g.pos >= Len(pkgs)
    THEN [gen |-> [g EXCEPT !.state = "finished",
                            !.done = IF g.kind = "iter_open" THEN @ + 1 ELSE @],
          cache |-> IF g.kind = "iter_open"
                    THEN [c EXCEPT !.cache_post_open_runs = @ + 1]
                    ELSE c,
          yield |-> <<>>, raised |-> FALSE]
    ELSE LET pkg == pkgs[g.pos + 1]
             g1 == ProgressUpdate(g, Len(pkgs))
         IN  IF pkg.has_versions /\ g.pos + 1 # bad
             THEN [gen |-> [g1 EXCEPT !.pos = @ + 1, !.state = "suspended"],
                   cache |-> Indexed(c, pkg),
                   yield |-> <<pkg>>, raised |-> FALSE]
             ELSE iter_open_loop_skips_bad([g1 EXCEPT !.pos = @ + 1, !.i = @ + 1],
                                           c, pkgs, bad)

RECURSIVE iter_open_loop_always_done(_, _, _, _)

\* iter_open_loop with progress.done() and the cache_post_open callbacks
\* in a finally clause: they run when the backend raises too.
iter_open_loop_always_done(g, c, pkgs, bad) ==
    IF g.pos >= Len(pkgs) \/ g.pos + 1 = bad
    THEN [gen |-> [g EXCEPT !.state = IF g.pos >= Len(pkgs) THEN "finished" ELSE "raised",
                            !.done = IF g.kind = "iter_open" THEN @ + 1 ELSE @],
          cache |-> IF g.kind = "iter_open"
                    THEN [c EXCEPT !.cache_post_open_runs = @ + 1]
                    ELSE c,
          yield |-> <<>>, raised |-> g.pos < Len(pkgs)]
    ELSE LET pkg == pkgs[g.pos + 1]
             g1 == ProgressUpdate(g, Len(pkgs))
         IN  IF pkg.has_versions
             THEN [gen |-> [g1 EXCEPT !.pos = @ + 1, !.state = "suspended"],
                   cache |-> Indexed(c, pkg),
                   yield |-> <<pkg>>, raised |-> FALSE]
             ELSE iter_open_loop_always_done([g1 EXCEPT !.pos = @ + 1, !.i = @ + 1],
                                             c, pkgs, bad)

RECURSIVE iter_open_loop(_, _, _, _)

\* The for loop of iter_open / iter_open_no_progress from where g stands,
\* up to its next yield, its end or an exception of the backend: the
\* generator, the cache, the package yielded (<<>> when the generator
\* returns or raises) and whether it raised.  The backend raises when the
\* loop asks it for the record at place bad; nothing in the loop catches
\* that, so the generator is left dead before its code after the loop.
iter_open_loop(g, c, pkgs, bad) ==
    IF g.pos >= Len(pkgs)
    THEN [gen |-> [g EXCEPT !.state = "finished",
                            !.done = IF g.kind = "iter_open" THEN @ + 1 ELSE @],
          cache |-> IF g.kind = "iter_open"
                    THEN [c EXCEPT !.cache_post_open_runs = @ + 1]
                    ELSE c,
          yield |-> <<>>, raised |-> FALSE]
    ELSE IF g.pos + 1 = bad
    THEN [gen |-> [g EXCEPT !.state = "raised"], cache |-> c, yield |-> <<>>,
          raised |-> TRUE]
    ELSE LET pkg == pkgs[g.pos + 1]
             g1 == ProgressUpdate(g, Len(pkgs))
         IN  IF pkg.has_versions
             THEN [gen |-> [g1 EXCEPT !.pos = @ + 1, !.state = "suspended"],
                   cache |-> Indexed(c, pkg),
                   yield |-> <<pkg>>, raised |-> FALSE]
             ELSE iter_open_loop([g1 EXCEPT !.pos = @ + 1, !.i = @ + 1], c, pkgs, bad)

\* gen_next without the implicit _pre_iter_open of a cache never opened.
gen_next_no_pre_open(g, c, pkgs, narchs, bad) ==
    CASE g.state = "created" ->
           iter_open_loop([g EXCEPT !.i = 0, !.last = 0], c, pkgs, bad)
      [] g.state = "suspended" ->
           iter_open_loop([g EXCEPT !.i = @ + 1], c, pkgs, bad)
      [] OTHER -> [gen |-> g, cache |-> c, yield |-> <<>>, raised |-> FALSE]

\* next() on the generator g of cache c.
gen_next(g, c, pkgs, narchs, bad) ==
    CASE g.state = "created" ->
           iter_open_loop([g EXCEPT !.i = 0, !.last = 0],
                          IF c._cache = <<>> THEN _pre_iter_open(c, pkgs, narchs) ELSE c,
                          pkgs, bad)
      [] g.state = "suspended" ->
           \* resumes after the yield: i += 1, then the next record
           iter_open_loop([g EXCEPT !.i = @ + 1], c, pkgs, bad)
      [] OTHER -> [gen |-> g, cache |-> c, yield |-> <<>>, raised |-> FALSE]

\* cache_get that enters a name it does not find into the name index.
cache_get_indexes(c, item) ==
    LET found == item \in c._weakref \cup c._set \cup c._fullnameset IN
    [cache |-> IF found THEN [c EXCEPT !._weakref = @ \cup {item}]
               ELSE [c EXCEPT !._set = @ \cup {item}],
     found |-> found]

\* cache.get(item, default): self[item] is the Package object _weakref
\* holds under item, or a new one (entered into _weakref) when item is in
\* _set or _fullnameset; any other item raises KeyError, which cache_get
\* turns into the default.
cache_get(c, item) ==
    LET found == item \in c._weakref \cup c._set \cup c._fullnameset IN
    [cache |-> IF found THEN [c EXCEPT !._weakref = @ \cup {item}] ELSE c,
     found |-> found]

\* ------------------------------------------------------------------------
\* The search command
\* ------------------------------------------------------------------------

\* An exception object, and no exception.
NoExc == [type |-> None, pattern |-> <<>>, message |-> [msg |-> "", at |-> -1]]

\* BadSearchQuery(pattern, re_error): re_error is a text, or the re.error
\* whose str() is "<msg> at position <at>".
BadSearchQuery(pattern, msg, at) ==
    [type |-> "BadSearchQuery", pattern |-> pattern, message |-> [msg |-> msg, at |-> at]]

\* sep.join(parsed)
RECURSIVE join(_, _)
join(sep, parsed) ==
    IF parsed = <<>> THEN <<>>
    ELSE IF Len(parsed) = 1 THEN parsed[1]
    ELSE parsed[1] \o sep \o join(sep, Tail(parsed))

RECURSIVE query_parse(_, _)

\* The loop of query_build: the patterns parsed so far, or the first
\* pattern with mismatched parentheses.
query_parse(patterns, parsed) ==
    IF patterns = <<>> THEN [ok |-> TRUE, parsed |-> parsed]
    ELSE LET pat == Head(patterns)
             parenscnt == count(pat, "(")
         IN  IF parenscnt # 0 /\ parenscnt = count(pat, ")")
             THEN query_parse(Tail(patterns), Append(parsed, pat))
             ELSE IF parenscnt = 0
             THEN query_parse(Tail(patterns), Append(parsed, <<"(">> \o pat \o <<")">>))
             ELSE [ok |-> FALSE, pat |-> pat]

query_build(patterns, all_patterns) ==
    LET p == query_parse(patterns, <<>>) IN
    IF p.ok
    THEN [ok |-> TRUE,
          query |-> join(IF all_patterns THEN <<"(", ".", "+", ")", "?">> ELSE <<"|">>,
                         p.parsed)]
    ELSE [ok |-> FALSE, exc |-> BadSearchQuery(p.pat, "Unbalanced parentheses.", -1)]

\* The --dev rewriting of cmd_search.
dev_query(query) ==
    LET ends == query # <<>> /\ query[Len(query)] = "$"
        stem == IF ends THEN SubSeq(query, 1, Len(query) - 1) ELSE query
        queryend == IF ends THEN <<"$">> ELSE <<>>
    IN  stem \o <<"(", ".", "+", ")", "d", "e", "v">> \o queryend

\* The keyword arguments main gives cmd_search.
search_kwargs(a) ==
    [desc_search |-> ~a.names, installstate |-> from_argd(a),
     case_insensitive |-> a.ignorecase, dev_only |-> a.dev, reverse |-> a.reverse]

\* No search generator, and search_itercache(regex, **kwargs) before its
\* first next().
NoSgen == [state |-> None, regex |-> <<>>, kwargs |-> None, compiled |-> <<>>]

NewSgen(regex, kwargs) ==
    [state |-> "created", regex |-> regex, kwargs |-> kwargs, compiled |-> <<>>]

\* The exception of the backend (apt_pkg raises SystemError): nothing
\* between the backend and sys.exit catches it.
BackendError == [NoExc EXCEPT !.type = "SystemError"]

\* filter_next without the filter: the next record of the enumeration,
\* whatever the predicate says of it.
filter_next_emits_all(re_pat, kwargs, g, c, pkgs, narchs, bad) ==
    LET r == gen_next(g, c, pkgs, narchs, bad) IN r @@ [pulled |-> r.yield]

RECURSIVE filter_next_reads_ahead(_, _, _, _, _, _, _)

\* filter_next that takes one more record from the enumeration before it
\* hands out the match it found.
filter_next_reads_ahead(re_pat, kwargs, g, c, pkgs, narchs, bad) ==
    LET r == gen_next(g, c, pkgs, narchs, bad) IN
    IF r.yield = <<>> THEN r @@ [pulled |-> <<>>]
    ELSE IF is_pkg_match(re_pat, r.yield[1], kwargs)
    THEN LET ahead == gen_next(r.gen, r.cache, pkgs, narchs, bad)
         IN  [gen |-> ahead.gen, cache |-> ahead.cache, yield |-> r.yield,
              raised |-> FALSE, pulled |-> r.yield]
    ELSE LET more == filter_next_reads_ahead(re_pat, kwargs, r.gen, r.cache,
                                             pkgs, narchs, bad)
         IN  [more EXCEPT !.pulled = r.yield \o @]

RECURSIVE filter_next(_, _, _, _, _, _, _)

\* next() of filter(is_match, cache.iter_open(...)): the records pulled
\* from the enumeration until one matches, the enumeration ends or it
\* raises.
filter_next(re_pat, kwargs, g, c, pkgs, narchs, bad) ==
    LET r == gen_next(g, c, pkgs, narchs, bad) IN
    IF r.yield = <<>> THEN r @@ [pulled |-> <<>>]
    ELSE IF is_pkg_match(re_pat, r.yield[1], kwargs)
    THEN r @@ [pulled |-> r.yield]
    ELSE LET more == filter_next(re_pat, kwargs, r.gen, r.cache, pkgs, narchs, bad)
         IN  [more EXCEPT !.pulled = r.yield \o @]

\* search_answer that never takes the end of the enumeration as its own.
search_answer_keeps_running(sg, r) ==
    [sgen |-> [sg EXCEPT !.state = IF r.raised THEN "raised" ELSE "running"],
     gen |-> r.gen, cache |-> r.cache, pulled |-> r.pulled, yield |-> r.yield,
     exc |-> IF r.raised THEN BackendError ELSE NoExc]

\* search_answer of a query with a state of its own: every result turns
\* its reverse flag over.
search_answer_toggles(sg, r) ==
    [sgen |-> [sg EXCEPT !.state = IF r.raised THEN "raised"
                                   ELSE IF r.yield = <<>> THEN "exhausted"
                                   ELSE "running",
                         !.kwargs.reverse = IF r.yield = <<>> THEN @ ELSE ~@],
     gen |-> r.gen, cache |-> r.cache, pulled |-> r.pulled, yield |-> r.yield,
     exc |-> IF r.raised THEN BackendError ELSE NoExc]

\* What next() on the search generator sg makes of the answer r of its
\* filter.
search_answer(sg, r) ==
    [sgen |-> [sg EXCEPT !.state = IF r.raised THEN "raised"
                                   ELSE IF r.yield = <<>> THEN "exhausted"
                                   ELSE "running"],
     gen |-> r.gen, cache |-> r.cache, pulled |-> r.pulled, yield |-> r.yield,
     exc |-> IF r.raised THEN BackendError ELSE NoExc]

\* search_next with the compile failure taken as "no record matches": the
\* enumeration runs to its end and nothing is raised.
search_next_skips_records(sg, g, c, pkgs, narchs, bad) ==
    LET re_pat == re_compile(sg.regex, sg.kwargs.case_insensitive)
        r == filter_next(re_compile(<<"(", ")">>, FALSE),
                         [sg.kwargs EXCEPT !.reverse = TRUE, !.desc_search = FALSE],
                         IF sg.state = "created" THEN NewGen("iter_open") ELSE g,
                         c, pkgs, narchs, bad)
    IN  IF sg.state \notin {"created", "running"}
        THEN [sgen |-> sg, gen |-> g, cache |-> c, pulled |-> <<>>, yield |-> <<>>,
              exc |-> NoExc]
        ELSE IF re_pat.ok
        THEN search_answer([sg EXCEPT !.compiled = <<re_pat>>],
                           filter_next(re_pat, sg.kwargs,
                                       IF sg.state = "created" THEN NewGen("iter_open") ELSE g,
                                       c, pkgs, narchs, bad))
        ELSE search_answer(sg, r)

\* next() on the generator sg of search_itercache, over the generator g of
\* the cache c: what they become, the packages pulled from the
\* enumeration, the package yielded (<<>> at the end) and the exception
\* raised (NoExc when none).
search_next(sg, g, c, pkgs, narchs, bad) ==
    IF sg.state = "created"
    THEN LET re_pat == re_compile(sg.regex, sg.kwargs.case_insensitive) IN
         IF ~re_pat.ok
         THEN [sgen |-> [sg EXCEPT !.state = "failed"], gen |-> g, cache |-> c,
               pulled |-> <<>>, yield |-> <<>>,
               exc |-> BadSearchQuery(sg.regex, re_pat.msg, re_pat.at)]
         ELSE search_answer([sg EXCEPT !.compiled = <<re_pat>>],
                            filter_next(re_pat, sg.kwargs, NewGen("iter_open"),
                                        c, pkgs, narchs, bad))
    ELSE IF sg.state = "running"
    THEN search_answer(sg, filter_next(sg.compiled[1], sg.kwargs, g, c, pkgs, narchs, bad))
    ELSE [sgen |-> sg, gen |-> g, cache |-> c, pulled |-> <<>>, yield |-> <<>>, exc |-> NoExc]

\* ------------------------------------------------------------------------
\* Bounds
\* ------------------------------------------------------------------------

\* The longest backend package list.
MaxPkgs == 3

\* The most enumeration generators one client creates on an instance.
MaxPasses == 2

\* The most explicit _pre_iter_open() calls of one client.
MaxPreOpens == 2

\* The most PATTERNS arguments on one command line.
MaxPatterns == 2

\* ------------------------------------------------------------------------
\* Specification of the predicate alone: every call the search can make,
\* and the same calls with each keyword argument given directly.
\* ------------------------------------------------------------------------

\* Query texts that compile, as search_itercache hands them to re.compile.
MatchRegexes ==
    {S_foo, <<"(">> \o S_foo \o <<")">>, <<"(", ")">>,
     <<"(">> \o S_bar \o <<")", "|", "(">> \o S_foo \o <<")">>,
     <<"(">> \o S_foo \o <<")", "(", ".", "+", ")">> \o <<"d", "e", "v">>,
     S_bar \o <<"$">>}

MatchKwargs ==
    [desc_search : BOOLEAN, reverse : BOOLEAN,
     installstate : InstallStateFilter \cup {None}]

IdleCall == [re_pat |-> None, pkg |-> None, kwargs |-> None]

MatchIdle == call = IdleCall /\ ret = <<>>

CacheIdle ==
    /\ packages = <<>>
    /\ archs = 1
    /\ failing = 0
    /\ cache = NoIterCache
    /\ gen = NoGen
    /\ yielded = <<>>
    /\ passes = 0
    /\ looked = <<>>

NoArgd ==
    [PATTERNS |-> <<>>, all |-> FALSE, names |-> FALSE, INSTALLED |-> FALSE,
     NOTINSTALLED |-> FALSE, ignorecase |-> FALSE, dev |-> FALSE, reverse |-> FALSE]

\* No environment read and no command running.
NoEnv ==
    [log |-> <<>>, stdin |-> <<>>, files |-> <<>>, old_api |-> FALSE, offline |-> FALSE]

NoRun == [cmd |-> None]

CmdIdle == env = NoEnv /\ run = NoRun

SearchIdle ==
    /\ argd = NoArgd
    /\ pc = "exit"
    /\ sgen = NoSgen
    /\ results = <<>>
    /\ exc = NoExc
    /\ status = 0

MatchInit ==
    /\ \E regex \in MatchRegexes, ic \in BOOLEAN, pkg \in PackagePool,
          kwargs \in MatchKwargs :
          call = [re_pat |-> re_compile(regex, ic), pkg |-> pkg, kwargs |-> kwargs]
    /\ ret = <<>>
    /\ CacheIdle
    /\ SearchIdle
    /\ CmdIdle

IsPkgMatch ==
    /\ ret = <<>>
    /\ ret' = <<is_pkg_match(call.re_pat, call.pkg, call.kwargs)>>
    /\ UNCHANGED <<call, backendVars, cacheVars, searchVars, cmdVars>>

MatchNext == IsPkgMatch

SpecMatch == MatchInit /\ [][MatchNext]_vars

\* ------------------------------------------------------------------------
\* Specification of IterCache under a client that calls its methods in any
\* order: _pre_iter_open(), iter_open(), iter_open_no_progress(), and
\* next() on the generator it holds.
\* ------------------------------------------------------------------------

\* The backend lists: packages are distinct (name and architecture).
RECURSIVE SeqsOf(_, _)
SeqsOf(S, n) ==
    IF n = 0 THEN {<<>>}
    ELSE LET shorter == SeqsOf(S, n - 1) IN
         shorter \cup {Append(q, x) : q \in {r \in shorter : Len(r) = n - 1}, x \in S}

Distinct(q) == \A m, n \in DOMAIN q : m # n => q[m] # q[n]

CachePool == {P_foo_dev, P_bar, P_bar_i386, P_cruft}

\* The decimal digits of k, as a text.
RECURSIVE Numeral(_)
Numeral(k) ==
    IF k < 10 THEN <<ToString(k)>> ELSE Numeral(k \div 10) \o <<ToString(k % 10)>>

\* The places of a large backend list that hold a package with versions.
VersionedEvery == 25

\* A backend list long enough for two progress reports: package k of it
\* has versions when k is a multiple of VersionedEvery.
LargeBackend ==
    [k \in 1 .. 2 * ProgressStep + 5 |->
        Package(<<"p">> \o Numeral(k), NativeArch, S_a_bar, FALSE, k % VersionedEvery = 0)]

Backends == {q \in SeqsOf(CachePool, MaxPkgs) : Distinct(q)} \cup {LargeBackend}

\* The names a client looks up.
LookupKeys ==
    {get_fullname(P_bar, TRUE), get_fullname(P_bar_i386, FALSE),
     get_fullname(P_cruft, TRUE)}

Min(a, b) == IF a < b THEN a ELSE b

CacheInit ==
    /\ MatchIdle
    /\ SearchIdle
    /\ CmdIdle
    /\ packages \in Backends
    /\ archs \in {1, 2}
    /\ failing \in 0 .. Min(Len(packages), MaxPkgs)
    /\ cache = NewIterCache
    /\ gen = NoGen
    /\ yielded = <<>>
    /\ passes = 0
    /\ looked = <<>>

\* cache._pre_iter_open()
PreIterOpen ==
    /\ cache.cache_pre_open_runs < MaxPreOpens
    /\ cache' = _pre_iter_open(cache, packages, archs)
    /\ UNCHANGED <<matchVars, cmdVars, searchVars, backendVars, gen, yielded, passes, looked>>

\* gen = cache.iter_open() or cache.iter_open_no_progress(): the generator
\* object only; its body starts with the first next().
IterOpen ==
    /\ passes < MaxPasses
    /\ \E kind \in {"iter_open", "iter_open_no_progress"} : gen' = NewGen(kind)
    /\ yielded' = <<>>
    /\ passes' = passes + 1
    /\ UNCHANGED <<matchVars, cmdVars, searchVars, backendVars, cache, looked>>

\* next(gen)
GenNext ==
    /\ gen.state \in {"created", "suspended"}
    /\ LET r == gen_next(gen, cache, packages, archs, failing) IN
       /\ gen' = r.gen
       /\ cache' = r.cache
       /\ yielded' = yielded \o r.yield
    /\ UNCHANGED <<matchVars, cmdVars, searchVars, backendVars, passes, looked>>

\* cache.get(item, None)
Lookup ==
    /\ \E item \in LookupKeys :
          LET r == cache_get(cache, item) IN
          /\ cache' = r.cache
          /\ looked' = <<[key |-> item, found |-> r.found]>>
    /\ UNCHANGED <<matchVars, cmdVars, searchVars, backendVars, gen, yielded, passes>>

CacheNext == PreIterOpen \/ IterOpen \/ GenNext \/ Lookup

SpecCache == CacheInit /\ [][CacheNext]_vars

\* ------------------------------------------------------------------------
\* Specification of the program run as a search: main with PATTERNS, up to
\* sys.exit.
\* ------------------------------------------------------------------------

\* What the user may type as one pattern.
UserPatterns ==
    {S_foo, S_bar \o <<"$">>, <<"(">>, <<")", "(">>,
     <<"(">> \o S_foo \o <<")">>}

Argds ==
    {a \in [PATTERNS : SeqsOf(UserPatterns, MaxPatterns) \ {<<>>},
            all : BOOLEAN, names : BOOLEAN, INSTALLED : BOOLEAN,
            NOTINSTALLED : BOOLEAN, ignorecase : BOOLEAN, dev : BOOLEAN,
            reverse : BOOLEAN] :
        ~(a.INSTALLED /\ a.NOTINSTALLED)}

\* The catalog of the end-to-end scenarios, and one with a version-less
\* record, a foreign-architecture record and a record without description.
SearchBackends ==
    {<<P_foo_dev, P_bar>>, <<P_cruft, P_libFoo, P_bar_i386, P_foo>>}

\* Where the backend of a search raises: nowhere, or at its second record.
SearchFailAt == {0, 2}

Init ==
    /\ MatchIdle
    /\ CmdIdle
    /\ packages \in SearchBackends
    /\ archs \in {1, 2}
    /\ failing \in SearchFailAt
    /\ cache = NoIterCache
    /\ gen = NoGen
    /\ yielded = <<>>
    /\ passes = 0
    /\ looked = <<>>
    /\ argd \in Argds
    /\ pc = "main"
    /\ sgen = NoSgen
    /\ results = <<>>
    /\ exc = NoExc
    /\ status = 0

\* main(argd) with PATTERNS, down to the for loop of cmd_search: the query
\* is built, the cache is created and pre-opened, the search generator is
\* created.  A BadSearchQuery of query_build ends the program with 1.
Main ==
    /\ pc = "main"
    /\ LET q == query_build(argd.PATTERNS, argd.all)
           kwargs == search_kwargs(argd)
       IN  IF ~q.ok
           THEN /\ exc' = q.exc
                /\ status' = 1
                /\ pc' = "exit"
                /\ UNCHANGED <<cache, sgen>>
           ELSE /\ cache' = _pre_iter_open(NewIterCache, packages, archs)
                /\ sgen' = NewSgen(IF kwargs.dev_only THEN dev_query(q.query) ELSE q.query,
                                   kwargs)
                /\ pc' = "cmd_search"
                /\ UNCHANGED <<exc, status>>
    /\ UNCHANGED <<matchVars, cmdVars, backendVars, gen, yielded, passes, looked, argd, results>>

\* One turn of the for loop of cmd_search: the next result is pulled and
\* printed; at the end of the results main returns 0; a BadSearchQuery
\* leaves main and the program exits with 1.
SearchNext ==
    /\ pc = "cmd_search"
    /\ LET r == search_next(sgen, gen, cache, packages, archs, failing) IN
       /\ sgen' = r.sgen
       /\ gen' = r.gen
       /\ cache' = r.cache
       /\ yielded' = yielded \o r.pulled
       /\ passes' = IF gen = NoGen /\ r.gen # NoGen THEN passes + 1 ELSE passes
       /\ results' = results \o r.yield
       /\ exc' = r.exc
       /\ IF r.exc # NoExc THEN status' = 1 /\ pc' = "exit"
          ELSE IF r.yield = <<>> THEN status' = 0 /\ pc' = "exit"
          ELSE UNCHANGED <<status, pc>>
    /\ UNCHANGED <<matchVars, cmdVars, backendVars, looked, argd>>

\* The user interrupts the search: KeyboardInterrupt, exit status 2.
Interrupt ==
    /\ pc = "cmd_search"
    /\ exc' = [NoExc EXCEPT !.type = "KeyboardInterrupt"]
    /\ status' = 2
    /\ pc' = "exit"
    /\ UNCHANGED <<matchVars, cmdVars, backendVars, cacheVars, argd, sgen, results>>

Next == Main \/ SearchNext \/ Interrupt

Spec == Init /\ [][Next]_vars

\* The command lines of one pattern and no option but --names and
\* --reverse.
FairArgds ==
    {a \in Argds :
        /\ Len(a.PATTERNS) = 1
        /\ ~a.all /\ ~a.ignorecase /\ ~a.dev /\ ~a.INSTALLED /\ ~a.NOTINSTALLED}

FairInit == Init /\ argd \in FairArgds

\* ------------------------------------------------------------------------
\* Specification of main up to the for loop of cmd_search, over patterns
\* with every combination of parenthesis counts.
\* ------------------------------------------------------------------------

\* Patterns: no parenthesis, balanced, only "(", only ")", more "(" than
\* ")", as many but in the wrong order.
QueryPatterns ==
    {S_foo, <<"(">> \o S_bar \o <<")">>, <<"(">>, <<")">>,
     S_foo \o <<")">>, <<"(", "(">> \o S_foo \o <<")">>, <<")", "(">>}

QueryArgds ==
    {[NoArgd EXCEPT !.PATTERNS = pats, !.all = all] :
        pats \in SeqsOf(QueryPatterns, MaxPatterns) \ {<<>>}, all \in BOOLEAN}

QueryInit ==
    /\ MatchIdle
    /\ CmdIdle
    /\ packages \in SearchBackends
    /\ archs = 1
    /\ failing = 0
    /\ cache = NoIterCache
    /\ gen = NoGen
    /\ yielded = <<>>
    /\ passes = 0
    /\ looked = <<>>
    /\ argd \in QueryArgds
    /\ pc = "main"
    /\ sgen = NoSgen
    /\ results = <<>>
    /\ exc = NoExc
    /\ status = 0

SpecQuery == QueryInit /\ [][Main]_vars

\* A step of the run: of the user or of the program.
Run == Interrupt \/ Main \/ SearchNext

\* The program, on those command lines, on an interpreter that keeps
\* running it: while the program has not exited a step is taken, main
\* going on to its for loop and the loop asking for the next result,
\* unless the user interrupts.
SpecFair == FairInit /\ [][Next]_vars /\ WF_vars(Run)

\* ------------------------------------------------------------------------
\* The history command
\* ------------------------------------------------------------------------

\* The command line of a command other than the search: what docopt gives
\* for the options and arguments the search does not use.
NoOptions ==
    [history |-> FALSE, QUERY |-> <<>>, COUNT |-> <<>>, PACKAGES |-> <<>>,
     locate |-> FALSE, LOCATE |-> FALSE, short |-> FALSE, install |-> FALSE,
     delete |-> FALSE, purge |-> FALSE, update |-> FALSE]

CmdArgd == NoArgd @@ NoOptions

\* What a command returns to main and main to sys.exit: an integer, True
\* or False, or None.
PyInt(n) == [type |-> "int", int |-> n, bool |-> FALSE]

PyBool(b) == [type |-> "bool", int |-> 0, bool |-> b]

PyNone == [type |-> "None", int |-> 0, bool |-> FALSE]

StatusRange == 256

\* sys.exit(ret): an integer is the status, True is 1, False and None are 0.
sys_exit(r) ==
    CASE r.type = "int" -> r.int % StatusRange
      [] r.type = "bool" -> IF r.bool THEN 1 ELSE 0
      [] r.type = "None" -> 0

Digits == {"0", "1", "2", "3", "4", "5", "6", "7", "8", "9"}

DigitValue(c) ==
    CASE c = "0" -> 0 [] c = "1" -> 1 [] c = "2" -> 2 [] c = "3" -> 3
      [] c = "4" -> 4 [] c = "5" -> 5 [] c = "6" -> 6 [] c = "7" -> 7
      [] c = "8" -> 8 [] c = "9" -> 9

RECURSIVE DecimalValue(_)
DecimalValue(t) ==
    IF t = <<>> THEN 0
    ELSE 10 * DecimalValue(SubSeq(t, 1, Len(t) - 1)) + DigitValue(t[Len(t)])

\* int(text): the number written in decimal with an optional sign, or the
\* ValueError for a text that is not one.
int(t) ==
    LET signed == t # <<>> /\ t[1] \in {"-", "+"}
        digits == IF signed THEN Tail(t) ELSE t
    IN  IF digits = <<>> \/ \E i \in 1..Len(digits) : digits[i] \notin Digits
        THEN [ok |-> FALSE, value |-> 0]
        ELSE [ok |-> TRUE,
              value |-> IF signed /\ t[1] = "-" THEN 0 - DecimalValue(digits)
                        ELSE DecimalValue(digits)]

\* main's check of COUNT: a count that is given and not empty must be an
\* integer of at least 1; a count not given, or empty, is passed on as it is
\* (no count is written <<>>).
count_arg(COUNT) ==
    IF COUNT = <<>> \/ COUNT[1] = <<>> THEN [ok |-> TRUE, count |-> <<>>]
    ELSE LET n == int(COUNT[1]) IN
         IF ~n.ok \/ n.value < 1 THEN [ok |-> FALSE, count |-> <<>>]
         ELSE [ok |-> TRUE, count |-> <<n.value>>]

\* cnt_exceeded(i) of cmd_history: never without a count.
cnt_exceeded(cnt, i) == cnt # <<>> /\ i >= cnt[1]

\* The words of the lines of dpkg.log.
S_date == <<"2", "0", "1", "5", "-", "0", "1", "-", "0", "2">>
S_clock == <<"0", "3", ":", "0", "4", ":", "0", "5">>
S_status == <<"s", "t", "a", "t", "u", "s">>
S_installed == <<"i", "n", "s", "t", "a", "l", "l", "e", "d">>
S_install == <<"i", "n", "s", "t", "a", "l", "l">>
S_upgrade == <<"u", "p", "g", "r", "a", "d", "e">>
S_configure == <<"c", "o", "n", "f", "i", "g", "u", "r", "e">>
S_trigproc == <<"t", "r", "i", "g", "p", "r", "o", "c">>
S_startup == <<"s", "t", "a", "r", "t", "u", "p">>
S_no_version == <<"<", "n", "o", "n", "e", ">">>
S_1_0 == <<"1", ".", "0">>
S_1_1 == <<"1", ".", "1">>

\* datetime.strptime(timestr, '%Y-%m-%d %H:%M:%S') accepts the text: four
\* digits, two and two with dashes, then two, two and two with colons.
strptime_ok(timestr) ==
    /\ Len(timestr) = 19
    /\ \A i \in 1..19 :
          CASE i \in {5, 8} -> timestr[i] = "-"
            [] i = 11 -> timestr[i] = " "
            [] i \in {14, 17} -> timestr[i] = ":"
            [] OTHER -> timestr[i] \in Digits

\* pkgnameraw.split(':') as a pair: the name and the architecture.
RECURSIVE split_colon(_)
split_colon(t) ==
    IF t = <<>> THEN <<<<>>>>
    ELSE IF Head(t) = ":" THEN <<<<>>>> \o split_colon(Tail(t))
    ELSE LET rest == split_colon(Tail(t)) IN
         <<<<Head(t)>> \o rest[1]>> \o Tail(rest)

\* HistoryLine.from_dpkg_line(line): the parsed line in <<...>>, or <<>> for
\* the None of a line that is empty, has a time that does not parse, is of
\* another kind or has too few words for its kind. Two errors are not
\* caught there and leave the function: the IndexError of a line of one
\* word, and the ValueError of a package name that is not name:arch.
from_dpkg_line(words) ==
    LET line == join(<<" ">>, words)
        parts == words
        timestr == join(<<" ">>, <<parts[1], parts[2]>>)
        statustype == parts[3]
        None_ == [raised |-> FALSE, hl |-> <<>>]
        HL(action, pkgnameraw, pkgfromver, pkgver) ==
            IF Len(split_colon(pkgnameraw)) # 2 THEN [raised |-> TRUE, hl |-> <<>>]
            ELSE [raised |-> FALSE,
                  hl |-> <<[line |-> line, name |-> split_colon(pkgnameraw)[1],
                            packagename |-> pkgnameraw, version |-> pkgver,
                            previous_version |-> pkgfromver,
                            arch |-> split_colon(pkgnameraw)[2],
                            statustype |-> statustype,
                            action |-> action, time |-> timestr]>>]
    IN  IF line = <<>> THEN None_
        ELSE IF Len(parts) < 2 THEN [raised |-> TRUE, hl |-> <<>>]
        ELSE IF ~strptime_ok(timestr) THEN None_
        ELSE IF Len(parts) < 3 THEN None_
        ELSE IF statustype = S_status
        THEN IF Len(parts) < 5 THEN None_
             ELSE IF Len(parts) < 6 /\ Len(split_colon(parts[5])) = 2 THEN None_
             ELSE HL(parts[4], parts[5], NoneText, parts[6])
        ELSE IF statustype \in {S_configure, S_trigproc}
        THEN IF Len(parts) < 4 THEN None_
             ELSE IF Len(parts) < 5 /\ Len(split_colon(parts[4])) = 2 THEN None_
             ELSE HL(NoneText, parts[4], NoneText, parts[5])
        ELSE IF statustype \in {S_install, S_upgrade}
        THEN IF Len(parts) < 4 THEN None_
             ELSE IF Len(parts) < 6 /\ Len(split_colon(parts[4])) = 2 THEN None_
             ELSE HL(NoneText, parts[4],
                     IF parts[5] # S_no_version THEN parts[5] ELSE NoneText, parts[6])
        ELSE None_

\* str.ljust(width)
ljust(t, width) ==
    IF Len(t) >= width THEN t ELSE t \o [i \in 1..(width - Len(t)) |-> " "]

NameWidth == 25
VersionWidth == 30

\* HistoryLine.__str__
HistoryLine_str(hl) ==
    LET saction == IF hl.action # NoneText /\ hl.action # <<>> THEN hl.action
                   ELSE hl.statustype
        head == <<"[">> \o hl.time \o <<"]", " ">> \o ljust(hl.name, NameWidth)
                    \o <<" ", "(">> \o saction \o <<")">>
    IN  IF hl.previous_version # NoneText /\ hl.previous_version # <<>>
        THEN head \o <<" ">> \o ljust(hl.previous_version, VersionWidth)
                  \o <<" ", "-", ">", " ">> \o hl.version
        ELSE head \o <<" ", "-", " ">> \o hl.version

\* HistoryLine.matches(repat): every line without a pattern, else a search
\* of the line and of each of its fields that is set.
matches_needs_pattern(hl, repat) ==
    IF repat = <<>> THEN FALSE
    ELSE \E targetstr \in {hl.line, hl.name, hl.packagename, hl.version, hl.arch,
                           hl.statustype, hl.action, hl.time} :
            /\ targetstr # NoneText
            /\ targetstr # <<>>
            /\ re_search(repat[1], targetstr)

matches(hl, repat) ==
    IF repat = <<>> THEN TRUE
    ELSE \E targetstr \in {hl.line, hl.name, hl.packagename, hl.version, hl.arch,
                           hl.statustype, hl.action, hl.time} :
            /\ targetstr # NoneText
            /\ targetstr # <<>>
            /\ re_search(repat[1], targetstr)

\* reversed(f.readlines())
RECURSIVE reversed(_)
reversed(lines) ==
    IF lines = <<>> THEN <<>> ELSE reversed(Tail(lines)) \o <<Head(lines)>>

\* One next() of iter_history() after pos lines of the reversed file were
\* taken: the lines that do not parse are passed over, the first that does
\* is yielded; the generator returns at the end of the file, and an error
\* that leaves from_dpkg_line leaves the generator.
RECURSIVE iter_history_next(_, _)
iter_history_next(lines, pos) ==
    IF pos >= Len(lines) THEN [pos |-> pos, yield |-> <<>>, raised |-> FALSE]
    ELSE LET historyline == from_dpkg_line(lines[pos + 1]) IN
         IF historyline.raised THEN [pos |-> pos + 1, yield |-> <<>>, raised |-> TRUE]
         ELSE IF historyline.hl # <<>>
         THEN [pos |-> pos + 1, yield |-> historyline.hl, raised |-> FALSE]
         ELSE iter_history_next(lines, pos + 1)

\* The command that runs: the locals of cmd_history, what it reported with
\* print_err, and what it returned once it has.
NoHistory ==
    [cmd |-> "history", repat |-> <<>>, count |-> <<>>, total |-> 0, opened |-> FALSE,
     pos |-> 0, errors |-> <<>>, returned |-> <<>>]

\* Lines of dpkg.log: a package installed, its states, another upgraded and
\* configured, the start of a dpkg run, and a line damaged at its start.
S_foo_amd64 == S_foo \o <<":">> \o NativeArch
S_bar_amd64 == S_bar \o <<":">> \o NativeArch

L_install == <<S_date, S_clock, S_install, S_foo_amd64, S_no_version, S_1_0>>
L_installed == <<S_date, S_clock, S_status, S_installed, S_foo_amd64, S_1_0>>
L_upgrade == <<S_date, S_clock, S_upgrade, S_bar_amd64, S_1_0, S_1_1>>
L_configure == <<S_date, S_clock, S_configure, S_bar_amd64, S_1_1, S_no_version>>
L_startup ==
    <<S_date, S_clock, S_startup, <<"a", "r", "c", "h", "i", "v", "e", "s">>,
      <<"u", "n", "p", "a", "c", "k">>>>
L_damaged ==
    <<<<"2", "0", "1", "5", "-", "0", "1">>, S_clock, S_status, S_installed, S_foo_amd64,
      S_1_0>>

LogLines == {L_install, L_installed, L_upgrade, L_configure, L_startup, L_damaged}

MaxLog == 3

\* The log file: absent (<<>>), or its lines oldest first.
Logs == {<<>>} \cup {<<lines>> : lines \in UNION {[1..n -> LogLines] : n \in 0..MaxLog}}

\* QUERY: not given, a word, a pattern that no line matches but a field of
\* some does, and a pattern that does not compile.
S_install_at_end == <<"i", "n", "s", "t", "a", "l", "l", "$">>

Queries == {<<>>, <<S_installed>>, <<S_install_at_end>>, <<<<"(">>>>}

\* COUNT: not given, empty, not a number, zero, one, two.
Counts == {<<>>, <<<<>>>>, <<<<"x">>>>, <<<<"0">>>>, <<<<"1">>>>, <<<<"2">>>>}

\* COUNT stands behind QUERY on the command line: no COUNT without a QUERY.
HistoryArgds ==
    {[CmdArgd EXCEPT !.history = TRUE, !.QUERY = qc[1], !.COUNT = qc[2]] :
        qc \in {x \in Queries \X Counts : x[1] = <<>> => x[2] = <<>>}}

HistoryInit ==
    /\ MatchIdle
    /\ CacheIdle
    /\ argd \in HistoryArgds
    /\ pc = "main"
    /\ sgen = NoSgen
    /\ results = <<>>
    /\ exc = NoExc
    /\ status = 0
    /\ env \in {[NoEnv EXCEPT !.log = l] : l \in Logs}
    /\ run = NoRun

\* main with --history: COUNT is checked, then cmd_history compiles the
\* filter; what either refuses ends the program.
HistoryMain ==
    /\ pc = "main"
    /\ argd.PATTERNS = <<>>
    /\ argd.history
    /\ LET c == count_arg(argd.COUNT)
           repat == IF argd.QUERY = <<>> THEN [ok |-> TRUE]
                    ELSE re_compile(argd.QUERY[1], FALSE)
           Return(msg, r) ==
               /\ run' = [NoHistory EXCEPT !.errors = <<msg>>, !.returned = <<r>>]
               /\ status' = sys_exit(r)
               /\ pc' = "exit"
       IN  IF ~c.ok THEN Return("Invalid number for count", PyInt(1))
           ELSE IF ~repat.ok THEN Return("Invalid filter text", PyBool(FALSE))
           ELSE /\ run' = [NoHistory EXCEPT
                              !.repat = IF argd.QUERY = <<>> THEN <<>> ELSE <<repat>>,
                              !.count = c.count]
                /\ pc' = "cmd_history"
                /\ UNCHANGED status
    /\ UNCHANGED <<matchVars, backendVars, cacheVars, argd, sgen, results, exc, env>>

\* One turn of the for loop of cmd_history: the next line that parses is
\* taken from iter_history, printed if it matches, and the loop is left
\* once the count is reached; at the end cmd_history returns True, and
\* False for a log that is not there or an error in a line.
HistoryLoop ==
    /\ pc = "cmd_history"
    /\ LET Return(msgs, r) ==
               /\ run' = [run EXCEPT !.opened = TRUE, !.errors = msgs, !.returned = <<r>>]
               /\ status' = sys_exit(r)
               /\ pc' = "exit"
               /\ UNCHANGED results
       IN  IF env.log = <<>>
           THEN Return(<<"Unable to retrieve history">>, PyBool(FALSE))
           ELSE LET r == iter_history_next(reversed(env.log[1]), run.pos) IN
                IF r.raised THEN Return(<<"Unexpected error">>, PyBool(FALSE))
                ELSE IF r.yield = <<>>
                THEN /\ run' = [run EXCEPT !.opened = TRUE, !.pos = r.pos,
                                           !.returned = <<PyBool(TRUE)>>]
                     /\ status' = sys_exit(PyBool(TRUE))
                     /\ pc' = "exit"
                     /\ UNCHANGED results
                ELSE LET historyline == r.yield[1]
                         hit == matches(historyline, run.repat)
                         total == IF hit THEN run.total + 1 ELSE run.total
                         leave == cnt_exceeded(run.count, total)
                     IN  /\ results' = IF hit
                                       THEN Append(results, HistoryLine_str(historyline))
                                       ELSE results
                         /\ run' = [run EXCEPT !.opened = TRUE, !.pos = r.pos,
                                               !.total = total,
                                               !.returned = IF leave THEN <<PyBool(TRUE)>>
                                                            ELSE <<>>]
                         /\ IF leave
                            THEN status' = sys_exit(PyBool(TRUE)) /\ pc' = "exit"
                            ELSE UNCHANGED <<status, pc>>
    /\ UNCHANGED <<matchVars, backendVars, cacheVars, argd, sgen, exc, env>>

HistoryNext == HistoryMain \/ HistoryLoop

SpecHistory == HistoryInit /\ [][HistoryNext]_vars

\* ------------------------------------------------------------------------
\* The commands on package names: locate, install, remove, and update
\* ------------------------------------------------------------------------

\* str.strip() for the blank the model's texts use.
RECURSIVE strip(_)
strip(t) ==
    IF t # <<>> /\ Head(t) = " " THEN strip(Tail(t))
    ELSE IF t # <<>> /\ t[Len(t)] = " " THEN strip(SubSeq(t, 1, Len(t) - 1))
    ELSE t

\* str.lower()
lower_text(t) == [i \in 1..Len(t) |-> lower(t[i])]

\* apt.Cache over the backend's records: its keys are the names of the
\* records with versions, a lookup takes a name with or without the
\* architecture; <<>> stands for the KeyError.
cache_main_keys(pkgs) == {pkg_name(pkgs[i]) : i \in {j \in 1..Len(pkgs) : pkgs[j].has_versions}}

cache_main_getitem(pkgs, key) ==
    LET hits == {i \in 1..Len(pkgs) :
                    /\ pkgs[i].has_versions
                    /\ key \in {get_fullname(pkgs[i], TRUE), get_fullname(pkgs[i], FALSE)}}
    IN  IF hits = {} THEN <<>> ELSE <<CHOOSE i \in hits : \A j \in hits : i <= j>>

\* A file named on the command line: os.path.isfile, and the words of its
\* lines when it can be read.
isfile(e, pname) == \E i \in 1..Len(e.files) : e.files[i].name = pname

file_of(e, pname) == e.files[CHOOSE i \in 1..Len(e.files) : e.files[i].name = pname]

\* The generator parse_packages_arg(names) before its first next().
NewNames ==
    [i |-> 0, did_stdin |-> FALSE, words |-> <<>>, reads |-> 0, state |-> "created"]

S_dash == <<"-">>

\* parse_packages_arg reading stdin at every '-'.
RECURSIVE parse_packages_arg_rereads(_, _, _, _)
parse_packages_arg_rereads(g, names, e, errs) ==
    IF g.words # <<>>
    THEN [g |-> [g EXCEPT !.words = Tail(g.words), !.state = "suspended"],
          yield |-> <<strip(Head(g.words))>>, errors |-> errs]
    ELSE IF g.i >= Len(names)
    THEN [g |-> [g EXCEPT !.state = "finished"], yield |-> <<>>, errors |-> errs]
    ELSE LET pname == names[g.i + 1]
             next == [g EXCEPT !.i = g.i + 1]
         IN  IF strip(pname) = S_dash
             THEN parse_packages_arg_rereads(
                      [next EXCEPT !.did_stdin = TRUE, !.reads = g.reads + 1,
                                   !.words = e.stdin],
                      names, e, errs)
             ELSE IF isfile(e, pname)
             THEN IF file_of(e, pname).readable
                  THEN parse_packages_arg_rereads(
                           [next EXCEPT !.words = file_of(e, pname).words], names, e, errs)
                  ELSE parse_packages_arg_rereads(
                           next, names, e, Append(errs, "Error reading from file"))
             ELSE [g |-> [next EXCEPT !.state = "suspended"], yield |-> <<pname>>,
                   errors |-> errs]

\* One next() of parse_packages_arg(names): the next name, from the words
\* still to give of stdin or of a file, or from the next entry; stdin is
\* read at the first '-' and a later '-' is reported and passed over, as is
\* a file that cannot be read. errs collects what print_err reported.
RECURSIVE parse_packages_arg(_, _, _, _)
parse_packages_arg(g, names, e, errs) ==
    IF g.words # <<>>
    THEN [g |-> [g EXCEPT !.words = Tail(g.words), !.state = "suspended"],
          yield |-> <<strip(Head(g.words))>>, errors |-> errs]
    ELSE IF g.i >= Len(names)
    THEN [g |-> [g EXCEPT !.state = "finished"], yield |-> <<>>, errors |-> errs]
    ELSE LET pname == names[g.i + 1]
             next == [g EXCEPT !.i = g.i + 1]
         IN  IF strip(pname) = S_dash
             THEN IF g.did_stdin
                  THEN parse_packages_arg(next, names, e,
                                          Append(errs, "Already read from stdin."))
                  ELSE parse_packages_arg(
                           [next EXCEPT !.did_stdin = TRUE, !.reads = g.reads + 1,
                                        !.words = e.stdin],
                           names, e, errs)
             ELSE IF isfile(e, pname)
             THEN IF file_of(e, pname).readable
                  THEN parse_packages_arg(
                           [next EXCEPT !.words = file_of(e, pname).words], names, e, errs)
                  ELSE parse_packages_arg(
                           next, names, e, Append(errs, "Error reading from file"))
             ELSE [g |-> [next EXCEPT !.state = "suspended"], yield |-> <<pname>>,
                   errors |-> errs]

\* The body of the loop of cmd_locate for one name: the line printed, and
\* whether the name was found. only_existing is taken and not looked at.
cmd_locate_one(pkgs, pname0, only_existing) ==
    LET pname == strip(lower_text(pname0))
        pkg == cache_main_getitem(pkgs, pname)
    IN  [found |-> pkg # <<>>,
         printed |-> <<[missing |-> pkg = <<>>,
                        name |-> IF pkg = <<>> THEN pname ELSE pkg_name(pkgs[pkg[1]])]>>]

\* What commit() does: it succeeds, or raises one of the two errors the
\* commands catch.
CommitOutcomes == {"ok", "LockFailedException", "SystemError"}

\* The backend's records after a package was installed or removed.
Committed(pkgs, i, installed) == [pkgs EXCEPT ![i].installed = installed]

\* cmd_install that does not look at the install state.
cmd_install_reinstalls(pkgs, pkgname, old_api, outcome) ==
    IF pkgname \in cache_main_keys(pkgs)
    THEN LET package == cache_main_getitem(pkgs, pkgname)[1] IN
         IF old_api
         THEN [ret |-> 1, marked |-> FALSE, committed |-> FALSE,
               errors |-> <<"apt_pkg doesn't have 'mark_install' attribute">>, pkgs |-> pkgs]
         ELSE IF outcome # "ok"
         THEN [ret |-> 1, marked |-> TRUE, committed |-> TRUE,
               errors |-> <<"Can't install package!">>, pkgs |-> pkgs]
         ELSE [ret |-> 0, marked |-> TRUE, committed |-> TRUE, errors |-> <<>>,
               pkgs |-> Committed(pkgs, package, TRUE)]
    ELSE [ret |-> 1, marked |-> FALSE, committed |-> FALSE,
          errors |-> <<"Can't find a package by that name">>, pkgs |-> pkgs]

\* cmd_install(pkgname): what it returns, whether it reached mark_install
\* and commit, what it reported, and the records afterwards.
cmd_install(pkgs, pkgname, old_api, outcome) ==
    IF pkgname \in cache_main_keys(pkgs)
    THEN LET package == cache_main_getitem(pkgs, pkgname)[1] IN
         IF pkg_install_state(pkgs[package], None)
         THEN [ret |-> 1, marked |-> FALSE, committed |-> FALSE,
               errors |-> <<"This package is already installed">>, pkgs |-> pkgs]
         ELSE IF old_api
         THEN [ret |-> 1, marked |-> FALSE, committed |-> FALSE,
               errors |-> <<"apt_pkg doesn't have 'mark_install' attribute">>, pkgs |-> pkgs]
         ELSE IF outcome # "ok"
         THEN [ret |-> 1, marked |-> TRUE, committed |-> TRUE,
               errors |-> <<"Can't install package!">>, pkgs |-> pkgs]
         ELSE [ret |-> 0, marked |-> TRUE, committed |-> TRUE, errors |-> <<>>,
               pkgs |-> Committed(pkgs, package, TRUE)]
    ELSE [ret |-> 1, marked |-> FALSE, committed |-> FALSE,
          errors |-> <<"Can't find a package by that name">>, pkgs |-> pkgs]

\* cmd_remove(pkgname, purge): the same for mark_delete.
cmd_remove(pkgs, pkgname, old_api, outcome) ==
    LET package == cache_main_getitem(pkgs, pkgname) IN
    IF package = <<>>
    THEN [ret |-> 1, marked |-> FALSE, committed |-> FALSE,
          errors |-> <<"Can't find a package by that name">>, pkgs |-> pkgs]
    ELSE IF ~pkg_install_state(pkgs[package[1]], None)
    THEN [ret |-> 1, marked |-> FALSE, committed |-> FALSE,
          errors |-> <<"This package is not installed">>, pkgs |-> pkgs]
    ELSE IF old_api
    THEN [ret |-> 1, marked |-> FALSE, committed |-> FALSE,
          errors |-> <<"apt_pkg doesn't have 'mark_delete' attribute">>, pkgs |-> pkgs]
    ELSE IF outcome # "ok"
    THEN [ret |-> 1, marked |-> TRUE, committed |-> TRUE,
          errors |-> <<"Can't remove package">>, pkgs |-> pkgs]
    ELSE [ret |-> 0, marked |-> TRUE, committed |-> TRUE, errors |-> <<>>,
          pkgs |-> Committed(pkgs, package[1], FALSE)]

\* The option of the command map that is set: its function.
command_of(a) ==
    CASE a.delete \/ a.purge -> "cmd_remove"
      [] a.install -> "cmd_install"
      [] a.locate \/ a.LOCATE -> "cmd_locate"
      [] a.update -> "cmd_update"
      [] OTHER -> None

\* The command that runs: the generator of its names, the names it gave,
\* the counters of cmd_locate, the calls multi_pkg_func made, what was
\* reported with print_err and what the command returned once it has.
NoPreload ==
    [cmd |-> None, names |-> NewNames, pulled |-> <<>>, existing |-> 0, checked |-> 0,
     calls |-> <<>>, errors |-> <<>>, returned |-> <<>>]

S_pkgs_txt == <<"p", "k", "g", "s", ".", "t", "x", "t">>

\* PACKAGES: '-' for stdin, a name, a name with its architecture, a file.
PackagesArgs == {S_dash, S_foo, S_bar_amd64, S_pkgs_txt}

MaxNames == 3

PreloadArgds ==
    {[CmdArgd EXCEPT !.update = TRUE]}
    \cup UNION {{[CmdArgd EXCEPT !.PACKAGES = names, !.locate = TRUE],
                 [CmdArgd EXCEPT !.PACKAGES = names, !.LOCATE = TRUE],
                 [CmdArgd EXCEPT !.PACKAGES = names, !.install = TRUE],
                 [CmdArgd EXCEPT !.PACKAGES = names, !.delete = TRUE],
                 [CmdArgd EXCEPT !.PACKAGES = names, !.purge = TRUE]} :
                    names \in UNION {[1..n -> PackagesArgs] : n \in 1..MaxNames}}

\* The package lists of the searches, and a cache that did not load.
PreloadBackends == SearchBackends \cup {<<>>}

\* stdin holds two names, Bar and zzz; the file named on the command line
\* holds one, or cannot be read.
PreloadEnvs ==
    {[NoEnv EXCEPT !.stdin = <<<<"B", "a", "r">>, <<"z", "z", "z">>>>,
                   !.files = <<[name |-> S_pkgs_txt, readable |-> r, words |-> <<S_foo_dev>>]>>,
                   !.old_api = o, !.offline = f] :
        r \in BOOLEAN, o \in BOOLEAN, f \in BOOLEAN}

PreloadInit ==
    /\ MatchIdle
    /\ packages \in PreloadBackends
    /\ archs = 1
    /\ failing = 0
    /\ cache = NoIterCache
    /\ gen = NoGen
    /\ yielded = <<>>
    /\ passes = 0
    /\ looked = <<>>
    /\ argd \in PreloadArgds
    /\ pc = "main"
    /\ sgen = NoSgen
    /\ results = <<>>
    /\ exc = NoExc
    /\ status = 0
    /\ env \in PreloadEnvs
    /\ env.offline => argd.update
    /\ env.old_api => argd.install \/ argd.delete \/ argd.purge
    /\ run = NoRun

\* main without PATTERNS and without --history: run_preload_cmd loads the
\* cache and calls the function of the option that is set. cmd_update runs
\* to its end here: it returns True whether the update failed or not.
PreloadMain ==
    /\ pc = "main"
    /\ argd.PATTERNS = <<>>
    /\ ~argd.history
    /\ LET Return(msgs, r) ==
               /\ run' = [NoPreload EXCEPT !.cmd = command_of(argd), !.errors = msgs,
                                           !.returned = <<r>>]
               /\ status' = sys_exit(r)
               /\ pc' = "exit"
       IN  IF Len(packages) = 0 THEN Return(<<"Failed to load apt cache!">>, PyInt(1))
           ELSE IF command_of(argd) = "cmd_update"
           THEN Return(IF env.offline THEN <<"Failed to complete download.">> ELSE <<>>,
                       PyBool(TRUE))
           ELSE IF command_of(argd) = None THEN Return(<<>>, PyNone)
           ELSE /\ run' = [NoPreload EXCEPT !.cmd = command_of(argd)]
                /\ pc' = command_of(argd)
                /\ UNCHANGED status
    /\ UNCHANGED <<matchVars, backendVars, cacheVars, argd, sgen, results, exc, env>>

\* One turn of the for loop of cmd_locate: the next name is taken from
\* parse_packages_arg, looked up and printed; at the end of the names the
\* command returns 0 if there were names and all were found, else 1.
LocateLoop ==
    /\ pc = "cmd_locate"
    /\ LET n == parse_packages_arg(run.names, argd.PACKAGES, env, run.errors) IN
       IF n.yield = <<>>
       THEN LET r == PyInt(IF run.checked > 0 /\ run.existing = run.checked THEN 0 ELSE 1)
            IN  /\ run' = [run EXCEPT !.names = n.g, !.errors = n.errors,
                                      !.returned = <<r>>]
                /\ status' = sys_exit(r)
                /\ pc' = "exit"
                /\ UNCHANGED results
       ELSE LET one == cmd_locate_one(packages, n.yield[1], argd.LOCATE) IN
            /\ run' = [run EXCEPT !.names = n.g, !.errors = n.errors,
                                  !.pulled = Append(run.pulled, n.yield[1]),
                                  !.existing = IF one.found THEN @ + 1 ELSE @,
                                  !.checked = @ + 1]
            /\ results' = results \o one.printed
            /\ UNCHANGED <<status, pc>>
    /\ UNCHANGED <<matchVars, backendVars, cacheVars, argd, sgen, exc, env>>

\* The sum of what the calls returned.
RECURSIVE sum(_)
sum(calls) == IF calls = <<>> THEN 0 ELSE calls[1].ret + sum(Tail(calls))

\* One turn of the generator expression of multi_pkg_func: the next name is
\* taken and cmd_install or cmd_remove is called on it, commit() ending in
\* any of its ways; the cache still open may show what was committed or
\* not. At the end of the names the sum is returned.
PackageLoop ==
    /\ pc \in {"cmd_install", "cmd_remove"}
    /\ LET n == parse_packages_arg(run.names, argd.PACKAGES, env, run.errors) IN
       IF n.yield = <<>>
       THEN LET r == PyInt(sum(run.calls)) IN
            /\ run' = [run EXCEPT !.names = n.g, !.errors = n.errors,
                                  !.returned = <<r>>]
            /\ status' = sys_exit(r)
            /\ pc' = "exit"
            /\ UNCHANGED packages
       ELSE \E outcome \in CommitOutcomes :
                LET c == IF pc = "cmd_install"
                         THEN cmd_install(packages, n.yield[1], env.old_api, outcome)
                         ELSE cmd_remove(packages, n.yield[1], env.old_api, outcome)
                IN  /\ run' = [run EXCEPT
                                  !.names = n.g,
                                  !.errors = n.errors \o c.errors,
                                  !.pulled = Append(run.pulled, n.yield[1]),
                                  !.calls = Append(run.calls,
                                                   [func |-> pc, pkgname |-> n.yield[1],
                                                    before |-> packages, ret |-> c.ret,
                                                    errors |-> c.errors,
                                                    marked |-> c.marked,
                                                    committed |-> c.committed])]
                    /\ packages' \in {c.pkgs, packages}
                    /\ UNCHANGED <<status, pc>>
    /\ UNCHANGED <<matchVars, archs, failing, cacheVars, argd, sgen, results, exc, env>>

PreloadNext == PreloadMain \/ LocateLoop \/ PackageLoop

SpecPreload == PreloadInit /\ [][PreloadNext]_vars

\* The program on every command line of the history command and of the
\* commands on package names.
SpecMain == (HistoryInit \/ PreloadInit) /\ [][HistoryNext \/ PreloadNext]_vars

\* ------------------------------------------------------------------------
\* Properties of the search predicate (checked under SpecMatch)
\* ------------------------------------------------------------------------

\* The install-state gate as the spec words it: the record's installed
\* state satisfies the filter.
PassesGate(pkg, filter) ==
    \/ filter \in {"every", None}
    \/ filter = "installed" /\ pkg.installed
    \/ filter = "uninstalled" /\ ~pkg.installed

\* The pattern is found in the text.
Found(re_pat, text) == re_search(re_pat, text)

Returned == ret # <<>>

\* C1: for every query with negate (reverse) set and every record that
\* passes the install-state gate, is_pkg_match returns the logical negation
\* of what the same query without negate returns.
C1_NegateIsNegation ==
    (Returned /\ call.kwargs.reverse /\ PassesGate(call.pkg, call.kwargs.installstate))
        => ret[1] = ~is_pkg_match(call.re_pat, call.pkg,
                                  [call.kwargs EXCEPT !.reverse = FALSE])

\* C3: without negate, a record that passes the install-state gate is
\* matched exactly when the pattern is found in its name, or descriptions
\* are searched and the description is non-empty and the pattern is found
\* in it; a matching name with an empty description is a match.
C3_PlainMatch ==
    (Returned /\ ~call.kwargs.reverse /\ PassesGate(call.pkg, call.kwargs.installstate))
        => ret[1] = (\/ Found(call.re_pat, pkg_name(call.pkg))
                     \/ /\ call.kwargs.desc_search
                        /\ call.pkg.description \notin {<<>>, NoneText}
                        /\ Found(call.re_pat, call.pkg.description))

\* The foo-dev record of scenario 1: the name matches, the description is
\* empty, descriptions are searched, and the record is matched.
C3_Witness ==
    /\ ret = <<TRUE>>
    /\ call.pkg = P_foo_dev
    /\ call.re_pat.pattern = S_foo
    /\ call.kwargs.desc_search
    /\ ~call.kwargs.reverse

\* C4: a record whose installed state does not satisfy the install filter
\* is not matched, with and without negate and whatever the pattern; the
\* filter "every" gates no record out.
C4_GateFirst ==
    Returned =>
        /\ ~PassesGate(call.pkg, call.kwargs.installstate) => ret[1] = FALSE
        /\ call.kwargs.installstate \in {"every", None}
               => ret[1] = is_pkg_match(call.re_pat, call.pkg,
                                        [call.kwargs EXCEPT !.installstate =
                                            IF call.pkg.installed THEN "installed"
                                            ELSE "uninstalled"])

\* A not-installed record under "installed only" and negate, whose name
\* the pattern does not match: the negated text match would accept it, the
\* gate refuses it.
C4_Witness ==
    /\ ret = <<FALSE>>
    /\ call.kwargs.installstate = "installed"
    /\ ~call.pkg.installed
    /\ call.kwargs.reverse
    /\ ~Found(call.re_pat, pkg_name(call.pkg))

\* ------------------------------------------------------------------------
\* Properties of the search command (checked under Spec)
\* ------------------------------------------------------------------------

\* The command line of the spec's scenarios 1 and 3: the pattern foo alone,
\* descriptions searched, any install state.
ScenarioArgd(a) ==
    /\ a.PATTERNS = <<S_foo>>
    /\ ~a.names /\ ~a.INSTALLED /\ ~a.NOTINSTALLED
    /\ ~a.ignorecase /\ ~a.dev /\ ~a.all

\* C2: scenario 3: the search for foo with negate over the catalog
\* [foo-dev, bar] yields no record at all.
C2_Scenario3 ==
    (ScenarioArgd(argd) /\ argd.reverse /\ packages = <<P_foo_dev, P_bar>>)
        => results = <<>>

\* C5: when the pattern text does not compile, BadSearchQuery is raised
\* before any catalog access: _pre_iter_open has not run on any cache.
C5_ErrorBeforePreOpen ==
    exc.type = "BadSearchQuery" => cache.cache_pre_open_runs = 0

\* The search was handed a text that does not compile.
BadRegex ==
    /\ sgen.state # None
    /\ ~re_compile(sgen.regex, sgen.kwargs.case_insensitive).ok

\* C6: a compile failure is terminal for the whole query and comes before
\* enumeration: no backend record is enumerated, tested or yielded before
\* the pattern compiled, and with a text that does not compile the search
\* yields nothing and ends failed, with BadSearchQuery and exit status 1,
\* instead of skipping records.
C6_CompileBeforeEnumeration ==
    /\ (gen # NoGen \/ yielded # <<>> \/ results # <<>>)
           => (sgen.compiled # <<>> /\ sgen.state \in {"running", "exhausted", "raised"})
    /\ BadRegex =>
           /\ gen = NoGen /\ yielded = <<>> /\ results = <<>>
           /\ sgen.state \in {"created", "failed"}
           /\ (pc = "exit" /\ exc.type # "KeyboardInterrupt")
                  => (sgen.state = "failed" /\ exc.type = "BadSearchQuery" /\ status = 1)

\* A failed search over a catalog that has records to yield.
C6_Witness ==
    /\ sgen.state = "failed"
    /\ pc = "exit"
    /\ \E n \in DOMAIN packages : packages[n].has_versions

\* The messages of the regular-expression engine.
RegexEngineMessages ==
    {"missing ), unterminated subpattern", "unbalanced parenthesis",
     "nothing to repeat", "multiple repeat", "unknown extension"}

\* C7: the BadSearchQuery raised for an expression that does not compile
\* carries the text the user supplied and the regex engine's message.
C7_ErrorCarriesUserText ==
    exc.type = "BadSearchQuery" =>
        /\ \E n \in DOMAIN argd.PATTERNS : exc.pattern = argd.PATTERNS[n]
        /\ exc.message.msg \in RegexEngineMessages

\* ------------------------------------------------------------------------
\* Properties of IterCache (checked under SpecCache)
\* ------------------------------------------------------------------------

HasVersions(pkg) == pkg.has_versions

Last(q) == q[Len(q)]

Names(q) == {get_fullname(q[n], TRUE) : n \in DOMAIN q}

\* C8: every record an enumeration has yielded has versions, and the
\* version-less records are skipped without ending the stream: what was
\* yielded is exactly the versioned records among those scanned.
C8_OnlyVersioned ==
    /\ \A n \in DOMAIN yielded : yielded[n].has_versions
    /\ gen.state \in {"suspended", "finished"}
           => yielded = SelectSeq(SubSeq(packages, 1, gen.pos), HasVersions)
    /\ gen.state = "finished" => gen.pos = Len(packages)

\* An enumeration that ended after yielding a record that stands behind a
\* version-less one.
C8_Witness ==
    /\ gen.state = "finished"
    /\ \E m, n \in DOMAIN packages :
           m < n /\ ~packages[m].has_versions /\ packages[n].has_versions
    /\ yielded # <<>>

\* C9: when a record is yielded its name is in _set and, on a
\* multi-architecture platform, its architecture-qualified name is in
\* _fullnameset; on a single-architecture platform _fullnameset stays
\* empty; _set never holds the name of a version-less record.
C9_IndexedWhenYielded ==
    /\ [](/\ archs <= 1 => cache._fullnameset = {}
          /\ \A n \in DOMAIN packages :
                 ~packages[n].has_versions
                     => get_fullname(packages[n], TRUE) \notin cache._set)
    /\ [][Len(yielded') > Len(yielded) =>
              /\ get_fullname(Last(yielded'), TRUE) \in cache'._set
              /\ archs > 1 => get_fullname(Last(yielded'), FALSE) \in cache'._fullnameset]_vars

\* A record was just yielded on a multi-architecture platform and both
\* indexes hold it.
C9_Witness ==
    /\ gen.state = "suspended"
    /\ archs > 1
    /\ get_fullname(Last(yielded), TRUE) \in cache._set
    /\ get_fullname(Last(yielded), FALSE) \in cache._fullnameset

\* C10: an iter_open on an instance that was enumerated before starts a
\* new pass after the reset of _pre_iter_open: during the new pass _set and
\* _fullnameset hold only names that pass produced.
C10_NewPassResets ==
    (passes >= 2 /\ gen.state \in {"suspended", "finished"})
        => /\ cache._set \subseteq Names(yielded)
           /\ cache._fullnameset \subseteq {get_fullname(yielded[n], FALSE) : n \in DOMAIN yielded}

\* The attributes of an instance, without the counts of callback runs.
Attributes(c) == [c EXCEPT !.cache_pre_open_runs = 0, !.cache_post_open_runs = 0]

\* C11: _pre_iter_open is a reset: called on the catalog in any state, also
\* after a full or partial enumeration, it leaves _set and _fullnameset
\* empty, _sorted_set and _weakref cleared and rough_size recomputed from
\* the backend; a second call right after it changes nothing more; and a
\* fresh catalog pre-opened any number of times is as after one call.
C11_PreOpenIsReset ==
    LET once == _pre_iter_open(cache, packages, archs)
        twice == _pre_iter_open(once, packages, archs)
    IN  /\ once._set = {}
        /\ once._fullnameset = {}
        /\ once._sorted_set = None
        /\ once._weakref = {}
        /\ once.rough_size = <<Len(packages)>>
        /\ Attributes(twice) = Attributes(once)
        /\ (cache.cache_pre_open_runs > 0 /\ passes = 0 /\ looked = <<>>)
               => Attributes(cache) = Attributes(_pre_iter_open(NewIterCache, packages, archs))

\* _pre_iter_open was called twice on a catalog whose enumeration stands
\* in the middle, after a record was indexed: the indexes are empty again.
C11_Witness ==
    /\ cache.cache_pre_open_runs = 2
    /\ gen.state = "suspended"
    /\ yielded # <<>>
    /\ cache._set = {}
    /\ cache._weakref = {}

\* A state of the first enumeration of a catalog that no _pre_iter_open
\* has reset since the enumeration began.
FirstPassUnreset ==
    /\ passes = 1
    /\ cache.cache_pre_open_runs <= 1
    /\ gen.state \in {"suspended", "finished", "raised"}

C13_RoughSizeBeforeYield ==
    (yielded # <<>> \/ gen.state \in {"suspended", "finished", "raised"})
        => /\ cache.rough_size # <<>>
           /\ cache.rough_size[1] \in Nat
           /\ cache.cache_pre_open_runs >= 1

\* A record was yielded by a catalog pre-opened once.
C13_Witness ==
    /\ yielded # <<>>
    /\ cache.cache_pre_open_runs = 1
    /\ cache.rough_size = <<Len(packages)>>

\* C14: rough_size is what the last _pre_iter_open computed from the
\* backend list, whatever the enumeration has done since, and at every
\* point of an enumeration neither the records yielded nor the records
\* scanned are more than rough_size.
C14_RoughSizeBounds ==
    cache._cache # <<>> =>
        /\ cache.rough_size = <<Len(cache._cache[1].packages)>>
        /\ gen.state \in {"suspended", "finished", "raised"}
               => /\ Len(yielded) <= cache.rough_size[1]
                  /\ gen.pos <= cache.rough_size[1]

\* An enumeration that ended with fewer records yielded than rough_size.
C14_Witness ==
    /\ gen.state = "finished"
    /\ yielded # <<>>
    /\ Len(yielded) < cache.rough_size[1]

\* ------------------------------------------------------------------------
\* Properties of the search stream (checked under Spec and SpecFair)
\* ------------------------------------------------------------------------

\* The versioned records among the first n of the backend list: what an
\* enumeration that has scanned n records has yielded.
Enumerated(n) == SelectSeq(SubSeq(packages, 1, n), HasVersions)

\* The search generator has run its filter.
Searching == sgen.state \in {"running", "exhausted", "raised"}

\* C15: the records the search has yielded are exactly the records of the
\* enumeration, in its order, that the predicate accepts: none dropped,
\* none that does not match, none twice; and an exhausted search has
\* enumerated the whole backend list.
C15_MatchingSubsequence ==
    Searching =>
        /\ yielded = Enumerated(gen.pos)
        /\ results = SelectSeq(yielded,
                               LAMBDA pkg : is_pkg_match(sgen.compiled[1], pkg, sgen.kwargs))
        /\ Distinct(results)
        /\ sgen.state = "exhausted" => gen.pos = Len(packages)

\* An exhausted search that yielded some of the records enumerated and
\* dropped others.
C15_Witness ==
    /\ sgen.state = "exhausted"
    /\ results # <<>>
    /\ Len(results) < Len(yielded)

\* C16: the search is pull-driven: before the first pull nothing is
\* enumerated; when the consumer holds its k-th result the cursor stands on
\* the backend record that produced it, and no record behind that one has
\* been taken from the backend, indexed or tested.
C16_Lazy ==
    /\ sgen.state \in {None, "created", "failed"}
           => (gen = NoGen /\ yielded = <<>> /\ cache._set = {})
    /\ sgen.state = "running"
           => /\ results # <<>>
              /\ gen.state = "suspended"
              /\ gen.pos \in DOMAIN packages
              /\ packages[gen.pos] = Last(results)
              /\ yielded = Enumerated(gen.pos)
              /\ cache._set = Names(Enumerated(gen.pos))

\* The consumer holds a result while a versioned record behind it is still
\* unscanned and unindexed.
C16_Witness ==
    /\ sgen.state = "running"
    /\ \E n \in DOMAIN packages :
           /\ n > gen.pos
           /\ packages[n].has_versions
           /\ get_fullname(packages[n], TRUE) \notin cache._set

\* C17: over a finite backend list the search of a consumer that keeps
\* pulling ends: the program reaches its exit, and unless it was
\* interrupted or an exception ended it the search is exhausted after one
\* pass over the whole list; the cursor never goes back, and an exhausted
\* search yields nothing more and moves nothing when asked again.
C17_SearchTerminates ==
    /\ <>(pc = "exit")
    /\ []((pc = "exit" /\ exc = NoExc)
              => /\ sgen.state = "exhausted"
                 /\ gen.state = "finished"
                 /\ gen.pos = Len(packages)
                 /\ passes = 1)
    /\ [](sgen.state = "exhausted"
              => LET r == search_next(sgen, gen, cache, packages, archs, failing)
                 IN  r.yield = <<>> /\ r.sgen = sgen /\ r.gen = gen /\ r.cache = cache)
    /\ [][gen'.pos >= gen.pos /\ passes' >= passes]_vars

\* A search that yielded results came to its end.
C17_Witness ==
    /\ pc = "exit"
    /\ exc = NoExc
    /\ sgen.state = "exhausted"
    /\ results # <<>>

\* The query text main hands to search_itercache for a command line.
QueryOf(a) ==
    LET q == query_build(a.PATTERNS, a.all) IN
    IF search_kwargs(a).dev_only THEN dev_query(q.query) ELSE q.query

\* C18: the predicate and the compiled query keep no state: the query
\* text, its keyword arguments and its compiled pattern stay what the
\* command line made them, matching leaves the name index to the
\* enumeration alone, and the results are a function of the command line
\* and the backend records scanned, so that the same query over the same
\* backend content gives the same sequence.
C18_QueryIsPure ==
    sgen.state # None =>
        /\ sgen.regex = QueryOf(argd)
        /\ sgen.kwargs = search_kwargs(argd)
        /\ sgen.compiled # <<>>
               => sgen.compiled[1] = re_compile(sgen.regex, sgen.kwargs.case_insensitive)
        /\ Searching =>
               /\ results =
                      SelectSeq(Enumerated(gen.pos),
                                LAMBDA pkg :
                                    is_pkg_match(re_compile(QueryOf(argd), argd.ignorecase),
                                                 pkg, search_kwargs(argd)))
               /\ cache._set = Names(Enumerated(gen.pos))
               /\ \A n \in DOMAIN yielded : \E m \in DOMAIN packages : yielded[n] = packages[m]

\* A search that tested a record after it had yielded another ended with
\* two results.
C18_Witness ==
    /\ sgen.state = "exhausted"
    /\ Len(results) >= 2

\* C19: an exception of the backend during the enumeration reaches the
\* consumer and ends the enumeration: the program exits with it, the
\* failing record is neither skipped nor asked for again, no record behind
\* it is yielded, and the records yielded before it stay in _set.
C19_BackendErrorPropagates ==
    /\ (/\ failing \in DOMAIN packages
        /\ pc = "exit"
        /\ exc.type \notin {"KeyboardInterrupt", "BadSearchQuery"})
           => exc = BackendError
    /\ exc = BackendError
           => /\ pc = "exit"
              /\ status = 1
              /\ sgen.state = "raised"
              /\ gen.state = "raised"
              /\ gen.pos = failing - 1
              /\ gen.done = 0
              /\ yielded = Enumerated(failing - 1)
              /\ cache._set = Names(yielded)
              /\ \A n \in DOMAIN results : \E m \in 1 .. failing - 1 : results[n] = packages[m]
              /\ LET r == search_next(sgen, gen, cache, packages, archs, failing)
                     e == gen_next(gen, cache, packages, archs, failing)
                 IN  /\ r.yield = <<>> /\ r.gen = gen /\ r.cache = cache
                     /\ e.yield = <<>> /\ e.gen = gen /\ e.cache = cache

\* The backend raised after the search had yielded a record.
C19_Witness ==
    /\ exc = BackendError
    /\ results # <<>>
    /\ cache._set # {}

\* ------------------------------------------------------------------------
\* Progress of iter_open (checked under SpecCache)
\* ------------------------------------------------------------------------

\* C20: progress.update is called in batches and by position: at least
\* ProgressStep + 1 backend records, version-less ones counted, are scanned
\* before the first call and between two calls; each call reports
\* 100 * i / size for a count i of records already scanned and the size of
\* the backend list, a value strictly between 0 and 100;
\* iter_open_no_progress reports nothing.
C20_ProgressBatched ==
    /\ \A n \in DOMAIN gen.updates :
           LET i == gen.updates[n][1]
               size == gen.updates[n][2]
               before == IF n = 1 THEN 0 ELSE gen.updates[n - 1][1]
           IN  /\ size = Len(packages)
               /\ i - before >= ProgressStep + 1
               /\ i <= gen.i
               /\ 0 < 100 * i
               /\ 100 * i < 100 * size
    /\ gen.state = "suspended" => gen.i + 1 = gen.pos
    /\ gen.state = "finished" => gen.i = gen.pos
    /\ gen.kind = "iter_open_no_progress" => gen.updates = <<>>

\* An enumeration that has reported progress twice.
C20_Witness ==
    /\ gen.kind = "iter_open"
    /\ Len(gen.updates) >= 2

\* ------------------------------------------------------------------------
\* Properties of query_build (checked under SpecQuery)
\* ------------------------------------------------------------------------

\* The counts of "(" and ")" in a pattern differ.
Unbalanced(pat) == count(pat, "(") # count(pat, ")")

\* A pattern as the claim has it parsed: wrapped in one group when it has
\* no parenthesis, unchanged otherwise.
Wrapped(pat) ==
    IF count(pat, "(") = 0 /\ count(pat, ")") = 0
    THEN <<"(">> \o pat \o <<")">>
    ELSE pat

\* C22: query_build joins the patterns in argument order with "(.+)?"
\* under --all and with "|" otherwise, wrapping a pattern without
\* parentheses in one group and leaving a pattern with equal, non-zero
\* counts of "(" and ")" as it is; a pattern whose counts differ raises
\* BadSearchQuery with "Unbalanced parentheses." before anything is joined
\* and before a cache is created.
C22_QueryBuild ==
    pc # "main" =>
        IF \E n \in DOMAIN argd.PATTERNS : Unbalanced(argd.PATTERNS[n])
        THEN /\ exc.type = "BadSearchQuery"
             /\ exc.message.msg = "Unbalanced parentheses."
             /\ Unbalanced(exc.pattern)
             /\ cache = NoIterCache
             /\ sgen = NoSgen
        ELSE /\ exc = NoExc
             /\ sgen.regex =
                    join(IF argd.all THEN <<"(", ".", "+", ")", "?">> ELSE <<"|">>,
                         [n \in DOMAIN argd.PATTERNS |-> Wrapped(argd.PATTERNS[n])])

\* ------------------------------------------------------------------------
\* The empty description (checked under SpecMatch)
\* ------------------------------------------------------------------------

\* C27: with descriptions searched, a record that passes the install-state
\* gate, whose name did not satisfy the name step and whose description is
\* empty is not matched, with negate and without.
C27_EmptyDescriptionNoHit ==
    (/\ Returned
     /\ call.kwargs.desc_search
     /\ PassesGate(call.pkg, call.kwargs.installstate)
     /\ ~matchfunc(call.re_pat, pkg_name(call.pkg), call.kwargs.reverse)
     /\ call.pkg.description \in {<<>>, NoneText})
        => ret[1] = FALSE

\* Under negate, the record foo-dev with its empty description, its name
\* holding the pattern, is not matched.
C27_Witness ==
    /\ ret = <<FALSE>>
    /\ call.kwargs.reverse
    /\ call.kwargs.desc_search
    /\ call.kwargs.installstate = "every"
    /\ call.pkg = P_foo_dev
    /\ call.re_pat.pattern = S_foo

\* ------------------------------------------------------------------------
\* Callbacks of IterCache (checked under SpecCache)
\* ------------------------------------------------------------------------

\* C30: progress.done() and the cache_post_open callbacks run once for a
\* generator of iter_open, when it has scanned the last backend record and
\* ends, and not for one the consumer has left suspended or the backend
\* ended with an exception; the cache_pre_open callbacks run once with
\* each _pre_iter_open, explicit or in the first next(), before the first
\* record of the pass is yielded.
C30_CompletionOnlyAtEnd ==
    /\ [](/\ gen.done = IF gen.kind = "iter_open" /\ gen.state = "finished" THEN 1 ELSE 0
          /\ gen.state = "finished" => gen.pos = Len(packages)
          /\ cache.cache_post_open_runs <= passes
          /\ (cache._cache # <<>>) = (cache.cache_pre_open_runs >= 1)
          /\ yielded # <<>> => cache.cache_pre_open_runs >= 1)
    /\ [][/\ cache'.cache_post_open_runs # cache.cache_post_open_runs
                 => /\ cache'.cache_post_open_runs = cache.cache_post_open_runs + 1
                    /\ gen.kind = "iter_open"
                    /\ gen.state \in {"created", "suspended"}
                    /\ gen'.state = "finished"
                    /\ gen'.pos = Len(packages)
          /\ cache'.cache_pre_open_runs # cache.cache_pre_open_runs
                 => /\ cache'.cache_pre_open_runs = cache.cache_pre_open_runs + 1
                    /\ \/ gen' = gen /\ yielded' = yielded
                       \/ gen.state = "created" /\ yielded = <<>> /\ cache._cache = <<>>
          /\ (gen.kind = "iter_open" /\ gen'.state = "finished" /\ gen.state # "finished")
                 => cache'.cache_post_open_runs = cache.cache_post_open_runs + 1]_vars

\* A generator of iter_open that yielded records has ended, with its one
\* done() and one run of the cache_post_open callbacks.
C30_Witness ==
    /\ gen.kind = "iter_open"
    /\ gen.state = "finished"
    /\ gen.done = 1
    /\ cache.cache_post_open_runs = 1
    /\ yielded # <<>>

\* ------------------------------------------------------------------------
\* Properties of the history command (checked under SpecHistory)
\* ------------------------------------------------------------------------

\* The history command has ended.
HistoryEnded == pc = "exit" /\ run.cmd = "history"

\* The lines of the log that parse, newest first.
RECURSIVE HistoryEntries(_)
HistoryEntries(lines) ==
    IF lines = <<>> THEN <<>>
    ELSE LET last == from_dpkg_line(lines[Len(lines)]).hl IN
         last \o HistoryEntries(SubSeq(lines, 1, Len(lines) - 1))

\* The entries a pattern matches.
RECURSIVE Matching(_, _)
Matching(entries, repat) ==
    IF entries = <<>> THEN <<>>
    ELSE (IF matches(entries[1], repat) THEN <<entries[1]>> ELSE <<>>)
             \o Matching(Tail(entries), repat)

Printed(entries) == [i \in 1..Len(entries) |-> HistoryLine_str(entries[i])]

\* The number of lines of the file, from its end, that hold the n newest
\* entries a pattern matches.
RECURSIVE LinesFor(_, _, _)
LinesFor(lines, repat, n) ==
    IF n = 0 \/ lines = <<>> THEN 0
    ELSE LET last == from_dpkg_line(lines[Len(lines)]).hl
             hit == last # <<>> /\ matches(last[1], repat)
         IN  1 + LinesFor(SubSeq(lines, 1, Len(lines) - 1), repat,
                          IF hit THEN n - 1 ELSE n)

\* C23: with a count n >= 1 the history command prints the first min(n, m)
\* of the m matching entries, newest first, and takes no line of the log
\* behind the n-th it printed; with a COUNT that is not an integer or is
\* less than 1 main returns 1 and the history is never read.
C23_CountLimits ==
    LET n == int(argd.COUNT[1])
        repat == <<re_compile(argd.QUERY[1], FALSE)>>
        found == Matching(HistoryEntries(env.log[1]), repat)
    IN  /\ (argd.history /\ argd.COUNT # <<>> /\ (~n.ok \/ n.value < 1))
               => /\ pc \in {"main", "exit"}
                  /\ pc = "exit" => status = 1 /\ ~run.opened /\ results = <<>>
        /\ (HistoryEnded /\ argd.COUNT # <<>> /\ n.ok /\ n.value >= 1
                /\ repat[1].ok /\ env.log # <<>>)
               => /\ results = Printed(SubSeq(found, 1, Min(n.value, Len(found))))
                  /\ Len(found) >= n.value
                         => run.pos = LinesFor(env.log[1], repat, n.value)

\* C24: the history command run without a QUERY prints the entries that
\* match 'installed' and no other.
C24_DefaultQueryInstalled ==
    (HistoryEnded /\ argd.QUERY = <<>> /\ env.log # <<>>)
        => results = Printed(Matching(HistoryEntries(env.log[1]),
                                      <<re_compile(S_installed, FALSE)>>))

C21_LocateOnlyExisting ==
    /\ (run.cmd = "cmd_locate" /\ argd.LOCATE)
           => \A i \in 1..Len(results) : ~results[i].missing
    /\ (run.cmd = "cmd_locate" /\ argd.locate) => Len(results) = Len(run.pulled)

Dash(pname) == strip(pname) = S_dash

\* The names a PACKAGES list stands for: the words of stdin for its first
\* '-', nothing for a later one, the words of a file that can be read,
\* every other entry itself.
RECURSIVE NamesOf(_, _, _)
NamesOf(names, e, seen) ==
    IF names = <<>> THEN <<>>
    ELSE LET pname == Head(names)
             here == IF Dash(pname) THEN (IF seen THEN <<>> ELSE e.stdin)
                     ELSE IF isfile(e, pname)
                     THEN (IF file_of(e, pname).readable THEN file_of(e, pname).words
                           ELSE <<>>)
                     ELSE <<pname>>
         IN  here \o NamesOf(Tail(names), e, seen \/ Dash(pname))

\* How many of the first n entries are '-'.
Dashes(names, n) == Cardinality({k \in 1..n : Dash(names[k])})

Reports(errors, msg) == Cardinality({k \in 1..Len(errors) : errors[k] = msg})

\* C26: stdin is read once, at the first '-' of PACKAGES; each later '-'
\* gives no name and one report 'Already read from stdin.'; the names given
\* are those of the entries in their order.
C26_StdinOnce ==
    run.cmd \in {"cmd_locate", "cmd_install", "cmd_remove"} =>
        LET g == run.names
            all == NamesOf(argd.PACKAGES, env, FALSE)
            dashes == Dashes(argd.PACKAGES, g.i)
        IN  /\ g.reads = IF dashes > 0 THEN 1 ELSE 0
            /\ Reports(run.errors, "Already read from stdin.")
                   = IF dashes > 0 THEN dashes - 1 ELSE 0
            /\ Len(run.pulled) <= Len(all)
            /\ run.pulled = SubSeq(all, 1, Len(run.pulled))
            /\ g.state = "finished" => run.pulled = all

\* PACKAGES = - foo - : the two names of stdin, then foo, and one report.
C26_Witness ==
    /\ run.cmd \in {"cmd_locate", "cmd_install", "cmd_remove"}
    /\ argd.PACKAGES = <<S_dash, S_foo, S_dash>>
    /\ run.names.state = "finished"
    /\ run.pulled = env.stdin \o <<S_foo>>
    /\ Reports(run.errors, "Already read from stdin.") = 1

\* The state from which a call may commit: the name is one of the cache
\* and its package is not installed for cmd_install, installed for
\* cmd_remove.
ValidCall(c) ==
    LET package == cache_main_getitem(c.before, c.pkgname) IN
    /\ package # <<>>
    /\ c.before[package[1]].installed = (c.func = "cmd_remove")

\* C28: cmd_install and cmd_remove mark and commit only from the valid
\* state; a call from any other state returns 1 and has marked and
\* committed nothing.
C28_CommitOnlyWhenValid ==
    run.cmd \in {"cmd_install", "cmd_remove"} =>
        \A k \in 1..Len(run.calls) :
            LET c == run.calls[k] IN
            /\ (c.marked \/ c.committed) => ValidCall(c)
            /\ ~ValidCall(c) => c.ret = 1 /\ ~c.marked /\ ~c.committed

\* Two calls of one run: the first committed from the valid state, the
\* second found the package in the other state and returned 1.
C28_Witness ==
    /\ run.cmd \in {"cmd_install", "cmd_remove"}
    /\ Len(run.calls) >= 2
    /\ run.calls[1].committed /\ run.calls[1].ret = 0
    /\ run.calls[2].pkgname = run.calls[1].pkgname
    /\ ~ValidCall(run.calls[2]) /\ run.calls[2].ret = 1

\* ------------------------------------------------------------------------
\* Properties of the exit status (checked under SpecMain)
\* ------------------------------------------------------------------------

\* The command did what it was asked: the history was printed, the update
\* went through, every name was located, every package was installed or
\* removed.
Succeeded ==
    CASE run.cmd = "cmd_locate" ->
           /\ run.checked > 0
           /\ \A i \in 1..Len(results) : ~results[i].missing
      [] run.cmd \in {"cmd_install", "cmd_remove"} ->
           /\ Reports(run.errors, "Failed to load apt cache!") = 0
           /\ \A k \in 1..Len(run.calls) :
                 run.calls[k].committed /\ run.calls[k].errors = <<>>
      [] OTHER -> run.errors = <<>>

\* C29: the exit status is 0 exactly when the command succeeded.
C29_StatusTellsSuccess ==
    (pc = "exit" /\ run.cmd # None) => (status = 0 <=> Succeeded)

====
